---- MODULE Spec2Model ----
(***************************************************************************)
(* A model of clusterphobia's partition structure, Clustering<C,M,G>       *)
(* (src/src/clustering/mod.rs) over Cluster<C,M>                           *)
(* (src/src/clustering/cluster.rs), as built by integer_clustering():      *)
(* members and categories are usize, the category generator is a Range.    *)
(*                                                                         *)
(* Every method is an operator from the Clustering (a record of its three  *)
(* fields) and the arguments to the Clustering afterwards and the value    *)
(* returned, written branch by branch as the method is.  A panic is a      *)
(* returned value of its own; it ends the run of the program.              *)
(***************************************************************************)
EXTENDS Integers, FiniteSets, Sequences, TLC

\* ------------------------------------------------------------------ bounds

\* Members are the integers 0 .. MaxItem-1.
MaxItem == 3

\* The category generator is the Range 0 .. GenEnd (exclusive), a scaled-down
\* 0..usize::MAX: it yields GenEnd categories and is exhausted afterwards.
GenEnd == 3

Items == 0 .. (MaxItem - 1)

\* Categories a caller may pass: every one the generator can yield, and
\* GenEnd, which it never yields.
Categories == 0 .. GenEnd

\* ------------------------------------------------- Option, Result, panics

\* Option<T>: None is the empty sequence, Some(x) the sequence of x alone.
None == << >>
Some(x) == << x >>

\* Result<C,C> and bool, and a panic, as the value a call ends with.
Ok(c) == [tag |-> "Ok", v |-> c]
Err(c) == [tag |-> "Err", v |-> c]
Bool(b) == [tag |-> IF b THEN "true" ELSE "false", v |-> 0]
Panic(msg) == [tag |-> msg, v |-> 0]

PanicExhausted == "panic: category_generator ran out of new categories"
PanicInconsistent == "panic: get_category inconsistent with clusters"
PanicUnwrapNone == "panic: called Option::unwrap() on a None value"
PanicUnwrapErr == "panic: called Result::unwrap() on an Err value"
PanicUnableToAdd == "panic: Unable to add item to category"
PanicUnableToMove == "panic: Unable to add item to new category"
PanicNoCluster == "panic: No Cluster for category"
PanicImpossible == "panic: Impossible case in move_item"
PanicParseInt == "panic: called Result::unwrap() on an Err value: ParseIntError"
PanicUnableToAddMember == "panic: Unable to add member to cluster"
PanicUnableToAddNew == "panic: Unable to add member to a new cluster"
PanicNotPresent == "panic: Item from one Clustering not present in the other"
PanicZeroLinkage == "panic: linkage_square_distance must be greater than zero."
PanicSubtractOverflow == "panic: attempt to subtract with overflow"
PanicMultiplyOverflow == "panic: attempt to multiply with overflow"
PanicAddOverflow == "panic: attempt to add with overflow"
PanicIndexOutOfBounds == "panic: index out of bounds"
PanicSecondBin == "panic: The second bin in a merge must have bounds that come after those of the first bin."

PanicTags ==
    { PanicExhausted, PanicInconsistent, PanicUnwrapNone, PanicUnwrapErr,
      PanicUnableToAdd, PanicUnableToMove, PanicNoCluster, PanicImpossible,
      PanicParseInt, PanicUnableToAddMember, PanicUnableToAddNew,
      PanicNotPresent, PanicZeroLinkage, PanicSubtractOverflow,
      PanicMultiplyOverflow, PanicAddOverflow, PanicIndexOutOfBounds,
      PanicSecondBin }

IsPanic(ret) == ret.tag \in PanicTags

\* ------------------------------------------------------- HashMap, HashSet

\* HashMap::insert: the key is added, or its value replaced.
MapInsert(map, k, val) ==
    [x \in (DOMAIN map) \cup {k} |-> IF x = k THEN val ELSE map[x]]

\* HashMap::remove: the key is dropped, if it was there.
MapRemove(map, k) == [x \in (DOMAIN map) \ {k} |-> map[x]]

EmptyMap == [x \in {} |-> 0]

\* ------------------------------------------------------------- Cluster

\* Cluster::with_member
with_member(category, member) == [category |-> category, members |-> {member}]

\* Cluster::add_member (HashSet::insert)
add_member(cluster, item) == [cluster EXCEPT !.members = @ \cup {item}]

\* Cluster::remove_member (HashSet::remove)
remove_member(cluster, item) == [cluster EXCEPT !.members = @ \ {item}]

\* Cluster::len, Cluster::is_empty
len(cluster) == Cardinality(cluster.members)
is_empty(cluster) == len(cluster) = 0

\* ---------------------------------------------------- category generator

\* Range::next as it would be if it did not move past what it yields.
RangeNext_stuck(gen) ==
    IF gen.start < gen.end
    THEN [item |-> Some(gen.start), gen |-> gen]
    ELSE [item |-> None, gen |-> gen]

\* Range<usize>::next: yields start and moves past it, None at the end.
RangeNext(gen) ==
    IF gen.start < gen.end
    THEN [item |-> Some(gen.start), gen |-> [gen EXCEPT !.start = @ + 1]]
    ELSE [item |-> None, gen |-> gen]

\* ---------------------------------------------------- Clustering: queries

\* Clustering::empty
empty(category_generator) ==
    [member_to_cluster |-> EmptyMap,
     clusters |-> EmptyMap,
     category_generator |-> category_generator]

\* integer_clustering
integer_clustering == empty([start |-> 0, end |-> GenEnd])

contains_item(s, item) == item \in DOMAIN s.member_to_cluster

contains_category(s, category) == category \in DOMAIN s.clusters

get_category(s, item) ==
    IF item \in DOMAIN s.member_to_cluster
    THEN Some(s.member_to_cluster[item])
    ELSE None

get_cluster(s, category) ==
    IF category \in DOMAIN s.clusters THEN Some(s.clusters[category]) ELSE None

are_together(s, item1, item2) ==
    LET category1 == get_category(s, item1)
        category2 == get_category(s, item2)
    IN  IF category1 # None /\ category2 # None
        THEN category1[1] = category2[1]
        ELSE FALSE

cluster_count(s) == Cardinality(DOMAIN s.clusters)

member_count(s) == Cardinality(DOMAIN s.member_to_cluster)

\* A call's outcome: the Clustering afterwards and the value returned.
Outcome(s, ret) == [s |-> s, ret |-> ret]

\* --------------------------------------------------- Clustering: mutators

\* add_to_new_cluster as it would be with the category drawn before the
\* item is looked up: a failed call uses up a category.
add_to_new_cluster_draws_first(s, item) ==
    LET current == get_category(s, item)
        next == RangeNext(s.category_generator)
    IN
    IF next.item = None THEN Outcome(s, Panic(PanicExhausted))
    ELSE IF current # None
    THEN Outcome([s EXCEPT !.category_generator = next.gen], Err(current[1]))
    ELSE
        LET category == next.item[1]
            cluster == with_member(category, item)
        IN  Outcome(
                [member_to_cluster |-> MapInsert(s.member_to_cluster, item, category),
                 clusters |-> MapInsert(s.clusters, category, cluster),
                 category_generator |-> next.gen],
                Ok(category))

\* Clustering::add_to_new_cluster
add_to_new_cluster(s, item) ==
    LET current == get_category(s, item) IN
    IF current # None THEN Outcome(s, Err(current[1]))
    ELSE
        LET next == RangeNext(s.category_generator) IN
        IF next.item = None THEN Outcome(s, Panic(PanicExhausted))
        ELSE
            LET category == next.item[1]
                cluster == with_member(category, item)
            IN  Outcome(
                    [member_to_cluster |-> MapInsert(s.member_to_cluster, item, category),
                     clusters |-> MapInsert(s.clusters, category, cluster),
                     category_generator |-> next.gen],
                    Ok(category))

\* add_to_cluster as it would be with the two lookups in the other order: an
\* unknown category panics before the item is found to be clustered.
add_to_cluster_category_first(s, item, category) ==
    LET current == get_category(s, item) IN
    IF category \notin DOMAIN s.clusters THEN Outcome(s, Panic(PanicInconsistent))
    ELSE IF current # None THEN Outcome(s, Err(current[1]))
    ELSE Outcome(
            [s EXCEPT
                !.clusters = MapInsert(@, category, add_member(@[category], item)),
                !.member_to_cluster = MapInsert(@, item, category)],
            Ok(category))

\* add_to_cluster as it would be without the insert into member_to_cluster.
add_to_cluster_no_index(s, item, category) ==
    LET current == get_category(s, item) IN
    IF current # None THEN Outcome(s, Err(current[1]))
    ELSE
        IF category \in DOMAIN s.clusters
        THEN Outcome(
                [s EXCEPT
                    !.clusters = MapInsert(@, category, add_member(@[category], item))],
                Ok(category))
        ELSE Outcome(s, Panic(PanicInconsistent))

\* Clustering::add_to_cluster
add_to_cluster(s, item, category) ==
    LET current == get_category(s, item) IN
    IF current # None THEN Outcome(s, Err(current[1]))
    ELSE
        IF category \in DOMAIN s.clusters
        THEN Outcome(
                [s EXCEPT
                    !.clusters = MapInsert(@, category, add_member(@[category], item)),
                    !.member_to_cluster = MapInsert(@, item, category)],
                Ok(category))
        ELSE Outcome(s, Panic(PanicInconsistent))

\* The expect() and unwrap() of a Result: the Ok outcome stands, an Err
\* panics with the message given, and a panic of the call itself goes on.
Expect(outcome, msg) ==
    IF outcome.ret.tag = "Err" THEN Outcome(outcome.s, Panic(msg)) ELSE outcome

\* merge_clusters as it would be without its last statement: the cluster
\* under category2 stays in clusters.
merge_clusters_keeps_cluster2(s, category1, category2) ==
    LET cluster2 == get_cluster(s, category2) IN
    IF cluster2 = None THEN Outcome(s, Panic(PanicUnwrapNone))
    ELSE
        LET cluster2_members == cluster2[1].members
            index ==
                [x \in (DOMAIN s.member_to_cluster) \cup cluster2_members |->
                    IF x \in cluster2_members
                    THEN category1
                    ELSE s.member_to_cluster[x]]
            s1 == [s EXCEPT !.member_to_cluster = index]
            cluster1 == get_cluster(s1, category1)
        IN
        IF cluster1 = None THEN Outcome(s1, Panic(PanicUnwrapNone))
        ELSE
            LET grown == [cluster1[1] EXCEPT !.members = @ \cup cluster2_members]
                s2 == [s1 EXCEPT !.clusters = MapInsert(@, category1, grown)]
            IN  Outcome(s2, Bool(TRUE))

\* Clustering::merge, items in two different clusters: the members of
\* cluster2 are re-indexed under category1, added to cluster1, and cluster2
\* is removed.
merge_clusters(s, category1, category2) ==
    LET cluster2 == get_cluster(s, category2) IN
    IF cluster2 = None THEN Outcome(s, Panic(PanicUnwrapNone))
    ELSE
        LET cluster2_members == cluster2[1].members
            index ==
                [x \in (DOMAIN s.member_to_cluster) \cup cluster2_members |->
                    IF x \in cluster2_members
                    THEN category1
                    ELSE s.member_to_cluster[x]]
            s1 == [s EXCEPT !.member_to_cluster = index]
            cluster1 == get_cluster(s1, category1)
        IN
        IF cluster1 = None THEN Outcome(s1, Panic(PanicUnwrapNone))
        ELSE
            LET grown == [cluster1[1] EXCEPT !.members = @ \cup cluster2_members]
                s2 == [s1 EXCEPT !.clusters = MapInsert(@, category1, grown)]
                s3 == [s2 EXCEPT !.clusters = MapRemove(@, category2)]
            IN  Outcome(s3, Bool(TRUE))

\* merge_unclustered as it would be with add_to_new_cluster called for the
\* second item as well: each item gets a cluster of its own.
merge_unclustered_apart(s, item1, item2) ==
    LET created == Expect(add_to_new_cluster(s, item1), PanicUnwrapErr) IN
    IF IsPanic(created.ret) THEN created
    ELSE
        LET added == add_to_new_cluster(created.s, item2)
        IN  IF IsPanic(added.ret) THEN added ELSE Outcome(added.s, Bool(TRUE))

\* Clustering::merge, neither item clustered: a new cluster for item1, and
\* item2 added to it; the Result of that second call is dropped.
merge_unclustered(s, item1, item2) ==
    LET created == Expect(add_to_new_cluster(s, item1), PanicUnwrapErr) IN
    IF IsPanic(created.ret) THEN created
    ELSE
        LET new_category == created.ret.v
            added == add_to_cluster(created.s, item2, new_category)
        IN  IF IsPanic(added.ret) THEN added ELSE Outcome(added.s, Bool(TRUE))

\* Clustering::merge
merge(s, item1, item2) ==
    LET category1 == get_category(s, item1)
        category2 == get_category(s, item2)
    IN
    IF category1 # None /\ category2 # None THEN
        IF category1[1] = category2[1]
        THEN Outcome(s, Bool(FALSE))
        ELSE merge_clusters(s, category1[1], category2[1])
    ELSE IF category1 # None THEN
        LET added == Expect(add_to_cluster(s, item2, category1[1]), PanicUnableToAdd)
        IN  IF IsPanic(added.ret) THEN added ELSE Outcome(added.s, Bool(TRUE))
    ELSE IF category2 # None THEN
        LET added == Expect(add_to_cluster(s, item1, category2[1]), PanicUnableToAdd)
        IN  IF IsPanic(added.ret) THEN added ELSE Outcome(added.s, Bool(TRUE))
    ELSE merge_unclustered(s, item1, item2)

\* remove_item as it would be without its last step: the member stays in
\* member_to_cluster.
remove_item_keeps_index(s, item) ==
    LET found == get_category(s, item) IN
    IF found = None THEN Outcome(s, Bool(FALSE))
    ELSE
        LET category == found[1] IN
        IF category \notin DOMAIN s.clusters THEN Outcome(s, Panic(PanicNoCluster))
        ELSE
            LET cluster == remove_member(s.clusters[category], item)
                s1 == [s EXCEPT !.clusters = MapInsert(@, category, cluster)]
                s2 == IF is_empty(cluster)
                      THEN [s1 EXCEPT !.clusters = MapRemove(@, category)]
                      ELSE s1
            IN  Outcome(s2, Bool(TRUE))

\* remove_item as it would be without the is_empty test: an emptied cluster
\* stays in clusters.
remove_item_keeps_empty_cluster(s, item) ==
    LET found == get_category(s, item) IN
    IF found = None THEN Outcome(s, Bool(FALSE))
    ELSE
        LET category == found[1] IN
        IF category \notin DOMAIN s.clusters THEN Outcome(s, Panic(PanicNoCluster))
        ELSE
            LET cluster == remove_member(s.clusters[category], item)
                s1 == [s EXCEPT !.clusters = MapInsert(@, category, cluster)]
                s3 == [s1 EXCEPT !.member_to_cluster = MapRemove(@, item)]
            IN  Outcome(s3, Bool(TRUE))

\* remove_item as it would be with the is_empty test dropped the other way:
\* the cluster is removed with whatever members it still has.
remove_item_drops_cluster(s, item) ==
    LET found == get_category(s, item) IN
    IF found = None THEN Outcome(s, Bool(FALSE))
    ELSE
        LET category == found[1] IN
        IF category \notin DOMAIN s.clusters THEN Outcome(s, Panic(PanicNoCluster))
        ELSE
            LET s2 == [s EXCEPT !.clusters = MapRemove(@, category)]
                s3 == [s2 EXCEPT !.member_to_cluster = MapRemove(@, item)]
            IN  Outcome(s3, Bool(TRUE))

\* Clustering::remove_item
remove_item(s, item) ==
    LET found == get_category(s, item) IN
    IF found = None THEN Outcome(s, Bool(FALSE))
    ELSE
        LET category == found[1] IN
        IF category \notin DOMAIN s.clusters THEN Outcome(s, Panic(PanicNoCluster))
        ELSE
            LET cluster == remove_member(s.clusters[category], item)
                s1 == [s EXCEPT !.clusters = MapInsert(@, category, cluster)]
                s2 == IF is_empty(cluster)
                      THEN [s1 EXCEPT !.clusters = MapRemove(@, category)]
                      ELSE s1
                s3 == [s2 EXCEPT !.member_to_cluster = MapRemove(@, item)]
            IN  Outcome(s3, Bool(TRUE))

\* move_item as it would be without the contains_category test in front.
move_item_no_category_check(s, item, new_category) ==
    LET current == get_category(s, item) IN
    IF current # None /\ current[1] = new_category THEN Outcome(s, Bool(FALSE))
    ELSE IF current # None /\ current[1] # new_category THEN
        LET removed == remove_item(s, item) IN
        IF IsPanic(removed.ret) THEN removed
        ELSE
            LET added == Expect(add_to_cluster(removed.s, item, new_category),
                                PanicUnableToMove)
            IN  IF IsPanic(added.ret) THEN added ELSE Outcome(added.s, Bool(TRUE))
    ELSE
        LET added == Expect(add_to_cluster(s, item, new_category), PanicUnableToMove)
        IN  IF IsPanic(added.ret) THEN added ELSE Outcome(added.s, Bool(TRUE))

\* Clustering::move_item
move_item(s, item, new_category) ==
    IF ~contains_category(s, new_category) THEN Outcome(s, Bool(FALSE))
    ELSE
        LET current == get_category(s, item) IN
        IF current # None /\ current[1] = new_category THEN Outcome(s, Bool(FALSE))
        ELSE IF current # None /\ current[1] # new_category THEN
            LET removed == remove_item(s, item) IN
            IF IsPanic(removed.ret) THEN removed
            ELSE
                LET added == Expect(add_to_cluster(removed.s, item, new_category),
                                    PanicUnableToMove)
                IN  IF IsPanic(added.ret) THEN added ELSE Outcome(added.s, Bool(TRUE))
        ELSE
            LET added == Expect(add_to_cluster(s, item, new_category), PanicUnableToMove)
            IN  IF IsPanic(added.ret) THEN added ELSE Outcome(added.s, Bool(TRUE))

\* ------------------------------------------------ from_delimited_string

\* A &str is the sequence of its characters, each a string of length one.
Digits == << "0", "1", "2", "3", "4", "5", "6", "7", "8", "9" >>

IsDigit(ch) == \E i \in 1 .. Len(Digits) : Digits[i] = ch

DigitValue(ch) == (CHOOSE i \in 1 .. Len(Digits) : Digits[i] = ch) - 1

\* str::split(sep): the pieces between the separators, empty ones included;
\* a string without separator is one piece, the empty string too.
RECURSIVE Split(_, _)
Split(str, sep) ==
    IF \A i \in 1 .. Len(str) : str[i] # sep THEN << str >>
    ELSE LET at == CHOOSE i \in 1 .. Len(str) :
                      str[i] = sep /\ \A j \in 1 .. (i - 1) : str[j] # sep
         IN  << SubSeq(str, 1, at - 1) >> \o Split(SubSeq(str, at + 1, Len(str)), sep)

\* The number a string of digits denotes.
RECURSIVE DecimalValue(_)
DecimalValue(digits) ==
    IF digits = << >> THEN 0
    ELSE 10 * DecimalValue(SubSeq(digits, 1, Len(digits) - 1))
         + DigitValue(digits[Len(digits)])

\* str::parse::<usize>: one optional '+', then one digit or more and
\* nothing else; None stands for the Err(ParseIntError).
ParseUsize(str) ==
    LET digits == IF str # << >> /\ str[1] = "+" THEN Tail(str) ELSE str IN
    IF digits = << >> \/ \E i \in 1 .. Len(digits) : ~IsDigit(digits[i])
    THEN None
    ELSE Some(DecimalValue(digits))

\* The inner loop of from_delimited_string over the members of one segment,
\* from the member at position i on.
RECURSIVE add_members(_, _, _, _)
add_members(s, member_strings, i, cluster_id_opt) ==
    IF i > Len(member_strings) THEN Outcome(s, [tag |-> "Clustering", v |-> 0])
    ELSE
        LET parsed == ParseUsize(member_strings[i]) IN
        IF parsed = None THEN Outcome(s, Panic(PanicParseInt))
        ELSE
            LET member == parsed[1] IN
            IF cluster_id_opt # None THEN
                LET added == Expect(add_to_cluster(s, member, cluster_id_opt[1]),
                                    PanicUnableToAddMember)
                IN  IF IsPanic(added.ret) THEN added
                    ELSE add_members(added.s, member_strings, i + 1, cluster_id_opt)
            ELSE
                LET created == Expect(add_to_new_cluster(s, member), PanicUnableToAddNew)
                IN  IF IsPanic(created.ret) THEN created
                    ELSE add_members(created.s, member_strings, i + 1, Some(created.ret.v))

\* The outer loop of from_delimited_string over the segments, from the
\* segment at position j on.
RECURSIVE add_segments(_, _, _)
add_segments(s, cluster_strings, j) ==
    IF j > Len(cluster_strings) THEN Outcome(s, [tag |-> "Clustering", v |-> 0])
    ELSE
        LET done == add_members(s, Split(cluster_strings[j], ","), 1, None) IN
        IF IsPanic(done.ret) THEN done
        ELSE add_segments(done.s, cluster_strings, j + 1)

\* from_delimited_string as it would be with the two separators taken one for
\* the other.
from_delimited_string_swapped(clustering_string) ==
    LET by_comma == Split(clustering_string, ",")
        relabel(str) == [i \in 1 .. Len(str) |->
                            IF str[i] = ";" THEN "," ELSE str[i]]
    IN  add_segments(integer_clustering,
                     [j \in 1 .. Len(by_comma) |-> relabel(by_comma[j])], 1)

\* from_delimited_string
from_delimited_string(clustering_string) ==
    add_segments(integer_clustering, Split(clustering_string, ";"), 1)

\* ------------------------------------------------------ the state machine

\* The three fields of the Clustering; the call made last, with the
\* Clustering it was made on and the value it ended with; and the
\* categories that became the key of a new cluster, in the order they did.
VARIABLES member_to_cluster, clusters, category_generator, call, handed_out

\* The argument and the result of a function that is called once on an
\* argument of the caller's choice: output is None before the call and Some
\* of what the call ended with after it.
VARIABLES input, output

\* The two Clusterings that BCubed compares.
VARIABLES solution, gold_standard

vars ==
    << member_to_cluster, clusters, category_generator, call, handed_out,
       input, output, solution, gold_standard >>

clusteringVars == << member_to_cluster, clusters, category_generator, call, handed_out >>
functionVars == << input, output >>
bcubedVars == << solution, gold_standard >>

\* The value of a variable that a specification does not use.
NotInUse == "not in use"

ClusteringNotInUse ==
    /\ member_to_cluster = NotInUse
    /\ clusters = NotInUse
    /\ category_generator = NotInUse
    /\ call = NotInUse
    /\ handed_out = NotInUse

FunctionNotInUse == input = NotInUse /\ output = NotInUse

BCubedNotInUse == solution = NotInUse /\ gold_standard = NotInUse

\* The Clustering as the operators take it.
State ==
    [member_to_cluster |-> member_to_cluster,
     clusters |-> clusters,
     category_generator |-> category_generator]

\* A panic unwinds the program: no call follows it.
Panicked == IsPanic(call.ret)

Init ==
    /\ member_to_cluster = integer_clustering.member_to_cluster
    /\ clusters = integer_clustering.clusters
    /\ category_generator = integer_clustering.category_generator
    /\ call = [op |-> "integer_clustering", a |-> 0, b |-> 0,
               ret |-> [tag |-> "new", v |-> 0], pre |-> integer_clustering]
    /\ handed_out = << >>
    /\ FunctionNotInUse
    /\ BCubedNotInUse

\* The call op(a, b) ends with the given outcome.
Returns(op, a, b, outcome) ==
    /\ member_to_cluster' = outcome.s.member_to_cluster
    /\ clusters' = outcome.s.clusters
    /\ category_generator' = outcome.s.category_generator
    /\ call' = [op |-> op, a |-> a, b |-> b, ret |-> outcome.ret, pre |-> State]
    /\ UNCHANGED << functionVars, bcubedVars >>

AddToNewCluster ==
    /\ ~Panicked
    /\ \E item \in Items :
        LET outcome == add_to_new_cluster(State, item) IN
        /\ Returns("add_to_new_cluster", item, 0, outcome)
        /\ handed_out' = IF outcome.ret.tag = "Ok"
                         THEN Append(handed_out, outcome.ret.v)
                         ELSE handed_out

AddToCluster ==
    /\ ~Panicked
    /\ \E item \in Items, category \in Categories :
        /\ Returns("add_to_cluster", item, category, add_to_cluster(State, item, category))
        /\ UNCHANGED handed_out

Merge ==
    /\ ~Panicked
    /\ \E item1 \in Items, item2 \in Items :
        LET outcome == merge(State, item1, item2) IN
        /\ Returns("merge", item1, item2, outcome)
        /\ handed_out' = IF /\ ~contains_item(State, item1)
                            /\ ~contains_item(State, item2)
                            /\ contains_item(outcome.s, item1)
                         THEN Append(handed_out, outcome.s.member_to_cluster[item1])
                         ELSE handed_out

RemoveItem ==
    /\ ~Panicked
    /\ \E item \in Items :
        /\ Returns("remove_item", item, 0, remove_item(State, item))
        /\ UNCHANGED handed_out

MoveItem ==
    /\ ~Panicked
    /\ \E item \in Items, new_category \in Categories :
        /\ Returns("move_item", item, new_category, move_item(State, item, new_category))
        /\ UNCHANGED handed_out

Next == AddToNewCluster \/ AddToCluster \/ Merge \/ RemoveItem \/ MoveItem

Spec == Init /\ [][Next]_vars

\* ------------------------------------------------------------ the claims

\* The Clustering the last call was made on, and the one it left.
Pre == call.pre
Post == State

Keys(s) == DOMAIN s.clusters

\* The sum of the sizes of the clusters under the given keys.
RECURSIVE SumOfSizes(_, _)
SumOfSizes(s, keys) ==
    IF keys = {} THEN 0
    ELSE LET c == CHOOSE k \in keys : TRUE
         IN  len(s.clusters[c]) + SumOfSizes(s, keys \ {c})

\* Every item a Clustering knows of, as a key of the index or as a member.
KnownItems(s) ==
    Items \cup (DOMAIN s.member_to_cluster)
          \cup UNION { s.clusters[c].members : c \in Keys(s) }

KnownCategories(s) ==
    Categories \cup Keys(s) \cup { s.member_to_cluster[m] : m \in DOMAIN s.member_to_cluster }

\* member_to_cluster maps m to c exactly when clusters holds, under key c, a
\* Cluster of category c with m among its members.
IndexesAgree(s) ==
    \A m \in KnownItems(s), c \in KnownCategories(s) :
        (m \in DOMAIN s.member_to_cluster /\ s.member_to_cluster[m] = c)
        <=> (/\ c \in Keys(s)
             /\ s.clusters[c].category = c
             /\ m \in s.clusters[c].members)

\* The categories left unchanged by the last call for all items but those given.
OthersKeepCategory(changed) ==
    \A x \in (KnownItems(Pre) \cup KnownItems(Post)) \ changed :
        get_category(Post, x) = get_category(Pre, x)

\* C1: after any sequence of add_to_new_cluster, add_to_cluster, merge,
\* move_item and remove_item calls on a Clustering that started empty, the
\* two indexes agree (member_to_cluster maps m to c if and only if clusters
\* holds under key c a Cluster of category c that has m as a member), every
\* item is a member of at most one cluster, and member_count() is the sum of
\* the sizes of all clusters.
C1_IndexesAgree ==
    /\ IndexesAgree(State)
    /\ \A m \in KnownItems(State) :
          Cardinality({ c \in Keys(State) : m \in clusters[c].members }) <= 1
    /\ member_count(State) = SumOfSizes(State, Keys(State))

\* C1's case: remove_item has taken one of the two members of a cluster, and
\* a second cluster stands beside it.
C1_Witness ==
    /\ call.op = "remove_item"
    /\ call.ret = Bool(TRUE)
    /\ cluster_count(State) = 2
    /\ member_count(State) = 2
    /\ member_count(Pre) = 3
    /\ cluster_count(Pre) = 2

\* C2: after any sequence of calls no cluster stored in the Clustering has an
\* empty member set (a cluster emptied by remove_item, move_item or merge is
\* deleted within the same call), so cluster_count() <= member_count().
C2_NoEmptyCluster ==
    /\ \A c \in Keys(State) : ~is_empty(clusters[c])
    /\ cluster_count(State) <= member_count(State)

\* C2's case: remove_item took the only member of a cluster, and the cluster
\* went with it while another cluster stayed.
C2_Witness ==
    /\ call.op = "remove_item"
    /\ call.ret = Bool(TRUE)
    /\ \E c \in Keys(Pre) : Pre.clusters[c].members = {call.a} /\ c \notin Keys(State)
    /\ cluster_count(State) >= 1

\* The categories of the two arguments of the last call, before it.
PreCategoryA == get_category(Pre, call.a)
PreCategoryB == get_category(Pre, call.b)

Exhausted(s) == RangeNext(s.category_generator).item = None

\* C3: merge(item1, item2), both items clustered in different clusters,
\* returns true, and afterwards the cluster under item1's old category holds
\* exactly the union of the two old member sets, every member of item2's old
\* cluster has item1's old category, item2's old category is no key any more
\* (cluster_count() one less, member_count() unchanged), the category of
\* every item outside the two clusters is unchanged, and every former
\* companion of item1 is together with every former companion of item2.
C3_MergeTwoClusters ==
    (/\ call.op = "merge"
     /\ PreCategoryA # None
     /\ PreCategoryB # None
     /\ PreCategoryA # PreCategoryB)
    => LET c1 == PreCategoryA[1]
           c2 == PreCategoryB[1]
           old1 == Pre.clusters[c1].members
           old2 == Pre.clusters[c2].members
       IN  /\ call.ret = Bool(TRUE)
           /\ c1 \in Keys(Post)
           /\ Post.clusters[c1].members = old1 \cup old2
           /\ \A y \in old2 : get_category(Post, y) = Some(c1)
           /\ c2 \notin Keys(Post)
           /\ cluster_count(Post) = cluster_count(Pre) - 1
           /\ member_count(Post) = member_count(Pre)
           /\ OthersKeepCategory(old1 \cup old2)
           /\ \A x \in old1 : get_category(Post, x) = Some(c1)
           /\ \A x \in old1, y \in old2 : are_together(Post, x, y)

\* C3's case: a merge of a cluster of one member with a cluster of two.
C3_Witness ==
    /\ call.op = "merge"
    /\ call.ret = Bool(TRUE)
    /\ PreCategoryA # None
    /\ PreCategoryB # None
    /\ PreCategoryA # PreCategoryB
    /\ Cardinality(Pre.clusters[PreCategoryB[1]].members) = 2
    /\ cluster_count(Post) = 1

\* C4: merge is idempotent. For all items a and b (a = b included, either
\* clustered or not) and every reachable Clustering whose category supplier
\* is not exhausted, merge(a, b) returns true unless are_together(a, b) held
\* already, are_together(a, b) holds afterwards, and merge(a, b) called again
\* at once returns false and changes neither index nor the supplier.
C4_MergeIdempotent ==
    (call.op = "merge" /\ ~Exhausted(Pre))
    => /\ call.ret = Bool(~are_together(Pre, call.a, call.b))
       /\ are_together(Post, call.a, call.b)
       /\ merge(Post, call.a, call.b) = Outcome(Post, Bool(FALSE))

\* C4's case: merge of an unclustered item with itself, which makes a
\* cluster of it and returns true.
C4_Witness ==
    /\ call.op = "merge"
    /\ call.a = call.b
    /\ PreCategoryA = None
    /\ ~Exhausted(Pre)
    /\ call.ret = Bool(TRUE)
    /\ cluster_count(Pre) >= 1

\* C5: merge(item1, item2) with unclustered items. If exactly one of the two
\* is clustered, the other is added to its cluster (the category is kept,
\* cluster_count() unchanged, member_count() one more). If neither is
\* clustered, one new cluster is made under one freshly supplied category and
\* holds both items (cluster_count() one more); with the supplier exhausted
\* that call ends in the supplier's fatal failure instead.  In both cases
\* merge returns true and every other item keeps its category.
C5_MergeUnclustered ==
    /\ (/\ call.op = "merge"
        /\ (PreCategoryA = None) # (PreCategoryB = None))
       => LET in_a == PreCategoryA # None
              c == IF in_a THEN PreCategoryA[1] ELSE PreCategoryB[1]
              joined == IF in_a THEN call.b ELSE call.a
              stayed == IF in_a THEN call.a ELSE call.b
          IN  /\ call.ret = Bool(TRUE)
              /\ get_category(Post, joined) = Some(c)
              /\ get_category(Post, stayed) = Some(c)
              /\ Keys(Post) = Keys(Pre)
              /\ Post.clusters[c].members = Pre.clusters[c].members \cup {joined}
              /\ cluster_count(Post) = cluster_count(Pre)
              /\ member_count(Post) = member_count(Pre) + 1
              /\ Post.category_generator = Pre.category_generator
              /\ OthersKeepCategory({joined})
    /\ (/\ call.op = "merge"
        /\ PreCategoryA = None
        /\ PreCategoryB = None)
       => IF Exhausted(Pre)
          THEN call.ret = Panic(PanicExhausted) /\ Post = Pre
          ELSE LET fresh == Pre.category_generator.start IN
               /\ call.ret = Bool(TRUE)
               /\ fresh \notin Keys(Pre)
               /\ Keys(Post) = Keys(Pre) \cup {fresh}
               /\ Post.clusters[fresh] = [category |-> fresh, members |-> {call.a, call.b}]
               /\ get_category(Post, call.a) = Some(fresh)
               /\ get_category(Post, call.b) = Some(fresh)
               /\ cluster_count(Post) = cluster_count(Pre) + 1
               /\ Post.category_generator.start = Pre.category_generator.start + 1
               /\ OthersKeepCategory({call.a, call.b})

\* C5's case: the first argument is the unclustered one, and joins the
\* cluster of the second beside a third item in a cluster of its own.
C5_Witness ==
    /\ call.op = "merge"
    /\ call.ret = Bool(TRUE)
    /\ PreCategoryA = None
    /\ PreCategoryB # None
    /\ cluster_count(Pre) = 2
    /\ member_count(Post) = 3

\* C6: add_to_new_cluster(item) on an item that is clustered already returns
\* Err with the item's current category and leaves the Clustering as it was,
\* the category supplier included: the failed call uses up no category.
C6_AddToNewClusterAlreadyClustered ==
    (call.op = "add_to_new_cluster" /\ PreCategoryA # None)
    => /\ call.ret = Err(PreCategoryA[1])
       /\ Post = Pre
       /\ Post.category_generator = Pre.category_generator

\* C6's case: the failed call, made while the supplier still has categories.
C6_Witness ==
    /\ call.op = "add_to_new_cluster"
    /\ PreCategoryA # None
    /\ call.ret.tag = "Err"
    /\ ~Exhausted(Pre)

\* C7: over any sequence of operations on a Clustering built by
\* integer_clustering(), every successful add_to_new_cluster(item) returns a
\* category that is the key of no live cluster at the time of the call and
\* was never handed out before (categories are handed out as 0, 1, 2, ... in
\* call order, also after clusters have been deleted), and makes a cluster
\* under that category whose only member is item; with the supplier
\* exhausted the call is a fatal failure.
C7_FreshCategory ==
    /\ \A i \in 1 .. Len(handed_out) : handed_out[i] = i - 1
    /\ (call.op = "add_to_new_cluster" /\ call.ret.tag = "Ok")
       => LET c == call.ret.v
              earlier == SubSeq(handed_out, 1, Len(handed_out) - 1)
          IN  /\ PreCategoryA = None
              /\ c \notin Keys(Pre)
              /\ \A i \in 1 .. Len(earlier) : earlier[i] # c
              /\ c = Len(earlier)
              /\ Keys(Post) = Keys(Pre) \cup {c}
              /\ Post.clusters[c] = [category |-> c, members |-> {call.a}]
              /\ get_category(Post, call.a) = Some(c)
    /\ (call.op = "add_to_new_cluster" /\ PreCategoryA = None)
       => IF Exhausted(Pre)
          THEN call.ret = Panic(PanicExhausted) /\ Post = Pre
          ELSE call.ret.tag = "Ok"

\* C7's case: two clusters were made and deleted, and the next new cluster
\* gets the third category, not one of the two that are free again.
C7_Witness ==
    /\ call.op = "add_to_new_cluster"
    /\ call.ret = Ok(2)
    /\ Keys(Pre) = {}
    /\ Keys(Post) = {2}

\* C8: add_to_cluster(item, category). If item is clustered already the call
\* fails with AlreadyClustered (Err) carrying the item's current category,
\* whether or not category is known; otherwise, if category is no key of the
\* Clustering, it fails with UnknownCategory (a panic); in both failures the
\* Clustering is unchanged.  Otherwise item becomes a member of that cluster,
\* get_category(item) is category, and Ok(category) is returned.
C8_AddToCluster ==
    (call.op = "add_to_cluster")
    => IF PreCategoryA # None
       THEN call.ret = Err(PreCategoryA[1]) /\ Post = Pre
       ELSE IF ~contains_category(Pre, call.b)
       THEN call.ret = Panic(PanicInconsistent) /\ Post = Pre
       ELSE /\ call.ret = Ok(call.b)
            /\ contains_category(Post, call.b)
            /\ call.a \in Post.clusters[call.b].members
            /\ get_category(Post, call.a) = Some(call.b)

\* C8's case: the item is clustered and the category is unknown: the call
\* returns Err and does not panic.
C8_Witness ==
    /\ call.op = "add_to_cluster"
    /\ PreCategoryA # None
    /\ ~contains_category(Pre, call.b)
    /\ call.ret.tag = "Err"

\* C9: move_item(item, new_category) returns false and changes nothing when
\* new_category is no key of the Clustering, and when item is in
\* new_category already; otherwise it returns true, get_category(item) is
\* new_category afterwards, the item's old cluster loses that item only (and
\* is deleted if that empties it), an item not clustered before is simply
\* added, and every other item keeps its category.
C9_MoveItem ==
    (call.op = "move_item")
    => IF ~contains_category(Pre, call.b) THEN call.ret = Bool(FALSE) /\ Post = Pre
       ELSE IF PreCategoryA = Some(call.b) THEN call.ret = Bool(FALSE) /\ Post = Pre
       ELSE /\ call.ret = Bool(TRUE)
            /\ get_category(Post, call.a) = Some(call.b)
            /\ Post.clusters[call.b].members = Pre.clusters[call.b].members \cup {call.a}
            /\ Post.category_generator = Pre.category_generator
            /\ OthersKeepCategory({call.a})
            /\ IF PreCategoryA = None
               THEN /\ Keys(Post) = Keys(Pre)
                    /\ member_count(Post) = member_count(Pre) + 1
               ELSE LET old == PreCategoryA[1]
                        rest == Pre.clusters[old].members \ {call.a}
                    IN  /\ member_count(Post) = member_count(Pre)
                        /\ IF rest = {}
                           THEN Keys(Post) = Keys(Pre) \ {old}
                           ELSE /\ Keys(Post) = Keys(Pre)
                                /\ Post.clusters[old].members = rest

\* C9's case: the item moved was the only member of its cluster, and that
\* cluster is gone.
C9_Witness ==
    /\ call.op = "move_item"
    /\ call.ret = Bool(TRUE)
    /\ PreCategoryA # None
    /\ Pre.clusters[PreCategoryA[1]].members = {call.a}
    /\ cluster_count(Post) = cluster_count(Pre) - 1

\* C10: remove_item(item) returns false and leaves the Clustering unchanged
\* when item is not clustered; otherwise it returns true, contains_item(item)
\* is false afterwards, member_count() is one less, the item's former cluster
\* is deleted if and only if item was its only member, and no other item's
\* category changes.
C10_RemoveItem ==
    (call.op = "remove_item")
    => IF PreCategoryA = None THEN call.ret = Bool(FALSE) /\ Post = Pre
       ELSE LET old == PreCategoryA[1] IN
            /\ call.ret = Bool(TRUE)
            /\ ~contains_item(Post, call.a)
            /\ member_count(Post) = member_count(Pre) - 1
            /\ (old \notin Keys(Post)) <=> (Pre.clusters[old].members = {call.a})
            /\ Keys(Post) \cup {old} = Keys(Pre)
            /\ OthersKeepCategory({call.a})

\* C10's case: the item removed had a companion, and their cluster stays.
C10_Witness ==
    /\ call.op = "remove_item"
    /\ call.ret = Bool(TRUE)
    /\ PreCategoryA # None
    /\ Cardinality(Pre.clusters[PreCategoryA[1]].members) = 2
    /\ PreCategoryA[1] \in Keys(Post)

\* ---------------------------------------- from_delimited_string, called once

\* The longest text given to from_delimited_string.
MaxTextLen == 5

Alphabet == { "0", "1", "2", "+", ",", ";" }

Texts == UNION { [1 .. n -> Alphabet] : n \in 0 .. MaxTextLen }

InitParse ==
    /\ input \in Texts
    /\ output = None
    /\ ClusteringNotInUse
    /\ BCubedNotInUse

FromDelimitedString ==
    /\ output = None
    /\ output' = Some(from_delimited_string(input))
    /\ UNCHANGED << input, clusteringVars, bcubedVars >>

NextParse == FromDelimitedString

SpecParse == InitParse /\ [][NextParse]_vars

\* The segments of a text, each the sequence of its member strings.
SegmentsOf(text) ==
    LET segments == Split(text, ";")
    IN  [j \in 1 .. Len(segments) |-> Split(segments[j], ",")]

\* A member string that denotes no integer: it is empty, or has a character
\* that is no digit, other than a '+' in front of at least one digit.
Malformed(str) ==
    \/ str = << >>
    \/ str = << "+" >>
    \/ \E i \in 1 .. Len(str) : ~IsDigit(str[i]) /\ ~(i = 1 /\ str[i] = "+")

\* The integer a member string made of digits denotes.
MemberValue(str) == DecimalValue(str)

\* Every member string is a string of digits, and no integer comes twice.
WellFormed(text) ==
    LET segs == SegmentsOf(text) IN
    /\ \A j \in 1 .. Len(segs) : \A i \in 1 .. Len(segs[j]) :
          segs[j][i] # << >> /\ \A n \in 1 .. Len(segs[j][i]) : IsDigit(segs[j][i][n])
    /\ \A j1, j2 \in 1 .. Len(segs) :
          \A i1 \in 1 .. Len(segs[j1]), i2 \in 1 .. Len(segs[j2]) :
              (MemberValue(segs[j1][i1]) = MemberValue(segs[j2][i2]))
              => (j1 = j2 /\ i1 = i2)

RECURSIVE SumOfLengths(_, _)
SumOfLengths(segs, j) ==
    IF j > Len(segs) THEN 0 ELSE Len(segs[j]) + SumOfLengths(segs, j + 1)

\* C11: from_delimited_string on a well-formed text of k segments of
\* distinct non-negative integers yields a Clustering with cluster_count()
\* k and member_count() the number of integers, in which every member of the
\* j-th segment (from 0) has category j, so that two integers are together
\* exactly when they are in the same segment; a malformed integer or an
\* empty segment is a fatal error.
C11_FromDelimitedString ==
    (output # None)
    => LET segs == SegmentsOf(input) IN
       /\ WellFormed(input)
          => /\ output[1].ret.tag = "Clustering"
             /\ cluster_count(output[1].s) = Len(segs)
             /\ member_count(output[1].s) = SumOfLengths(segs, 1)
             /\ \A j \in 1 .. Len(segs) : \A i \in 1 .. Len(segs[j]) :
                   get_category(output[1].s, MemberValue(segs[j][i])) = Some(j - 1)
             /\ \A j1, j2 \in 1 .. Len(segs) :
                   \A i1 \in 1 .. Len(segs[j1]), i2 \in 1 .. Len(segs[j2]) :
                       are_together(output[1].s, MemberValue(segs[j1][i1]),
                                    MemberValue(segs[j2][i2]))
                       <=> (j1 = j2)
       /\ (\E j \in 1 .. Len(segs) : \E i \in 1 .. Len(segs[j]) : Malformed(segs[j][i]))
          => IsPanic(output[1].ret)

\* C11's case: a text of two segments, the first of two members and the
\* second of one, has been turned into a Clustering.
C11_Witness ==
    /\ output # None
    /\ WellFormed(input)
    /\ Len(SegmentsOf(input)) = 2
    /\ Len(SegmentsOf(input)[1]) = 2
    /\ Len(SegmentsOf(input)[2]) = 1
    /\ output[1].ret.tag = "Clustering"
    /\ cluster_count(output[1].s) = 2
    /\ member_count(output[1].s) = 3

-----------------------------------------------------------------------------
\* BCubed::tally_squares (bcubed.rs).

\* The for loop of tally_squares from the i-th category on: tallies is the
\* HashMap of counts so far and sum_of_squares the running sum.  An occupied
\* entry adds 2 * current_tally + 1 and counts one more, a vacant one adds 1
\* and is inserted with the count 1.
RECURSIVE tally_loop(_, _, _, _)
tally_loop(categories, i, tallies, sum_of_squares) ==
    IF i > Len(categories) THEN sum_of_squares
    ELSE LET category == categories[i] IN
         IF category \in DOMAIN tallies
         THEN LET current_tally == tallies[category]
              IN  tally_loop(categories, i + 1,
                             MapInsert(tallies, category, current_tally + 1),
                             sum_of_squares + 2 * current_tally + 1)
         ELSE tally_loop(categories, i + 1, MapInsert(tallies, category, 1),
                         sum_of_squares + 1)

\* A tally_squares whose occupied arm adds 2 * current_tally only.
RECURSIVE tally_loop_even(_, _, _, _)
tally_loop_even(categories, i, tallies, sum_of_squares) ==
    IF i > Len(categories) THEN sum_of_squares
    ELSE LET category == categories[i] IN
         IF category \in DOMAIN tallies
         THEN LET current_tally == tallies[category]
              IN  tally_loop_even(categories, i + 1,
                                  MapInsert(tallies, category, current_tally + 1),
                                  sum_of_squares + 2 * current_tally)
         ELSE tally_loop_even(categories, i + 1, MapInsert(tallies, category, 1),
                              sum_of_squares + 1)

tally_squares_even(categories) == tally_loop_even(categories, 1, EmptyMap, 0)

\* tally_squares of the categories an iterator yields, in the order it
\* yields them.
tally_squares(categories) == tally_loop(categories, 1, EmptyMap, 0)

\* The longest sequence of categories tally_squares is called on.
MaxTally == 4

CategorySeqs == UNION { [1 .. n -> Categories] : n \in 0 .. MaxTally }

InitTally ==
    /\ input \in CategorySeqs
    /\ output = None
    /\ ClusteringNotInUse
    /\ BCubedNotInUse

TallySquares ==
    /\ output = None
    /\ output' = Some(tally_squares(input))
    /\ UNCHANGED << input, clusteringVars, bcubedVars >>

NextTally == TallySquares

SpecTally == InitTally /\ [][NextTally]_vars

\* How often a category comes in a sequence.
CountOf(categories, category) ==
    Cardinality({ i \in 1 .. Len(categories) : categories[i] = category })

RECURSIVE SumOfSquaredCounts(_, _)
SumOfSquaredCounts(categories, cats) ==
    IF cats = {} THEN 0
    ELSE LET c == CHOOSE x \in cats : TRUE
         IN  CountOf(categories, c) * CountOf(categories, c)
             + SumOfSquaredCounts(categories, cats \ {c})

\* The ordered pairs of positions, a position with itself included, that
\* hold the same category.
EqualPairs(categories) ==
    { pair \in (1 .. Len(categories)) \X (1 .. Len(categories)) :
        categories[pair[1]] = categories[pair[2]] }

\* C13: tally_squares returns the sum over the distinct categories of the
\* square of their number of occurrences, which is the number of ordered
\* pairs of positions (self-pairs included) with equal categories, and
\* returns the same for every order of the sequence.
C13_TallySquares ==
    (output # None)
    => /\ output[1] = SumOfSquaredCounts(input, Categories)
       /\ output[1] = Cardinality(EqualPairs(input))
       /\ \A f \in Permutations(1 .. Len(input)) :
             tally_squares([i \in 1 .. Len(input) |-> input[f[i]]]) = output[1]

\* C13's case: a category that comes three times and another that comes
\* once have been tallied to 10.
C13_Witness ==
    /\ output # None
    /\ \E c, d \in Categories :
          c # d /\ CountOf(input, c) = 3 /\ CountOf(input, d) = 1
    /\ output[1] = 10

-----------------------------------------------------------------------------
\* f64 arithmetic, as bcubed.rs uses it: every operation yields the exact
\* result rounded to the nearest number of MantissaBits significant bits,
\* ties to the even mantissa.  A finite number is m * 2^e with m odd (or m
\* and e both 0); the exponents the computations meet are far inside the
\* range of an f64, so none overflows or underflows.

\* The significant bits of a number (53 in an f64).
MantissaBits == 5

RECURSIVE Pow2(_)
Pow2(k) == IF k = 0 THEN 1 ELSE 2 * Pow2(k - 1)

Abs(x) == IF x < 0 THEN -x ELSE x

Sign(x) == IF x < 0 THEN -1 ELSE 1

Min(x, y) == IF x < y THEN x ELSE y

NaN == [kind |-> "NaN", m |-> 0, e |-> 0]

Infinity(sign) == [kind |-> "inf", m |-> sign, e |-> 0]

RECURSIVE Finite(_, _)
Finite(m, e) ==
    IF m = 0 THEN [kind |-> "finite", m |-> 0, e |-> 0]
    ELSE IF m % 2 = 0 THEN Finite(m \div 2, e + 1)
    ELSE [kind |-> "finite", m |-> m, e |-> e]

\* num / den, for num >= 0 and den > 0, rounded to the nearest integer, a
\* tie to the even one.
RoundHalfEven(num, den) ==
    LET q == num \div den
        r == num % den
    IN  IF 2 * r < den THEN q
        ELSE IF 2 * r > den THEN q + 1
        ELSE IF q % 2 = 0 THEN q ELSE q + 1

\* (num / den) * 2^e, for num > 0 and den > 0, as the nearest number: the
\* quotient is scaled into MantissaBits bits and rounded.
RECURSIVE RoundPositive(_, _, _)
RoundPositive(num, den, e) ==
    IF num >= den * Pow2(MantissaBits) THEN RoundPositive(num, 2 * den, e + 1)
    ELSE IF num < den * Pow2(MantissaBits - 1) THEN RoundPositive(2 * num, den, e - 1)
    ELSE Finite(RoundHalfEven(num, den), e)

\* (num / den) * 2^e for den > 0, as the nearest number.
Round(num, den, e) ==
    IF num = 0 THEN Finite(0, 0)
    ELSE LET r == RoundPositive(Abs(num), den, e)
         IN  [r EXCEPT !.m = Sign(num) * r.m]

\* n as f64, for an unsigned integer n.
f64_from(n) == Round(n, 1, 0)

f64_add(x, y) ==
    IF x.kind = "NaN" \/ y.kind = "NaN" THEN NaN
    ELSE IF x.kind = "inf" /\ y.kind = "inf"
         THEN IF x.m = y.m THEN x ELSE NaN
    ELSE IF x.kind = "inf" THEN x
    ELSE IF y.kind = "inf" THEN y
    ELSE LET e == Min(x.e, y.e)
         IN  Round(x.m * Pow2(x.e - e) + y.m * Pow2(y.e - e), 1, e)

f64_neg(x) == IF x.kind = "NaN" THEN NaN ELSE [x EXCEPT !.m = -x.m]

f64_sub(x, y) == f64_add(x, f64_neg(y))

f64_mul(x, y) ==
    IF x.kind = "NaN" \/ y.kind = "NaN" THEN NaN
    ELSE IF x.kind = "inf" \/ y.kind = "inf"
         THEN IF x.m = 0 \/ y.m = 0 THEN NaN ELSE Infinity(Sign(x.m) * Sign(y.m))
    ELSE Round(x.m * y.m, 1, x.e + y.e)

f64_div(x, y) ==
    IF x.kind = "NaN" \/ y.kind = "NaN" THEN NaN
    ELSE IF x.kind = "inf"
         THEN IF y.kind = "inf" THEN NaN ELSE Infinity(Sign(x.m) * Sign(y.m))
    ELSE IF y.kind = "inf" THEN Finite(0, 0)
    ELSE IF y.m = 0
         THEN IF x.m = 0 THEN NaN ELSE Infinity(Sign(x.m))
    ELSE Round(Sign(y.m) * x.m, Abs(y.m), x.e - y.e)

\* x == y: a NaN equals nothing, itself included.
f64_eq(x, y) == x.kind # "NaN" /\ y.kind # "NaN" /\ x = y

\* x < y: false when either is a NaN.
f64_lt(x, y) ==
    IF x.kind = "NaN" \/ y.kind = "NaN" THEN FALSE
    ELSE IF x.kind = "inf" THEN x.m < 0 /\ ~(y.kind = "inf" /\ y.m < 0)
    ELSE IF y.kind = "inf" THEN y.m > 0
    ELSE LET e == Min(x.e, y.e)
         IN  x.m * Pow2(x.e - e) < y.m * Pow2(y.e - e)

One == Finite(1, 0)

Zero == Finite(0, 0)

-----------------------------------------------------------------------------
\* BCubed (bcubed.rs).

BCubed_new(precision, recall, alpha) ==
    [precision |-> precision, recall |-> recall, alpha |-> alpha]

get_precision(b) == b.precision

get_recall(b) == b.recall

\* precision * recall / (alpha * recall + (1.0 - alpha) * precision)
similarity(b) ==
    f64_div(f64_mul(b.precision, b.recall),
            f64_add(f64_mul(b.alpha, b.recall),
                    f64_mul(f64_sub(One, b.alpha), b.precision)))

\* The members of a set in the order an iterator yields them; tally_squares
\* does not depend on it.
RECURSIVE Iterate(_)
Iterate(set) ==
    IF set = {} THEN << >>
    ELSE LET x == CHOOSE y \in set : TRUE IN << x >> \o Iterate(set \ {x})

\* The orders in which a HashMap may yield the clusters of a Clustering.
Orders(s) ==
    LET keys == Iterate(DOMAIN s.clusters)
    IN  { [i \in 1 .. Len(keys) |-> f[keys[i]]] : f \in Permutations(DOMAIN s.clusters) }

\* The for loop of compute_precision from the i-th cluster of the order on:
\* a member without a category in gold_standard ends it in the panic of the
\* expect; else the cluster adds tally_squares / cluster.len() to
\* weighted_sum.
RECURSIVE precision_loop(_, _, _, _, _)
precision_loop(sol, gold, order, i, weighted_sum) ==
    IF i > Len(order) THEN [tag |-> "f64", v |-> weighted_sum]
    ELSE LET cluster == sol.clusters[order[i]]
             pi_sub_i_magnitude == f64_from(len(cluster))
             members == Iterate(cluster.members)
         IN  IF \E m \in cluster.members : get_category(gold, m) = None
             THEN Panic(PanicNotPresent)
             ELSE LET categories ==
                          [k \in 1 .. Len(members) |->
                              get_category(gold, members[k])[1]]
                      sum_of_squares == f64_from(tally_squares(categories))
                  IN  precision_loop(sol, gold, order, i + 1,
                          f64_add(weighted_sum,
                                  f64_div(sum_of_squares, pi_sub_i_magnitude)))

\* A compute_precision that leaves out the items gold_standard does not have.
RECURSIVE precision_loop_skips(_, _, _, _, _)
precision_loop_skips(sol, gold, order, i, weighted_sum) ==
    IF i > Len(order) THEN [tag |-> "f64", v |-> weighted_sum]
    ELSE LET cluster == sol.clusters[order[i]]
             pi_sub_i_magnitude == f64_from(len(cluster))
             members == Iterate({ m \in cluster.members :
                                    get_category(gold, m) # None })
             categories == [k \in 1 .. Len(members) |->
                               get_category(gold, members[k])[1]]
             sum_of_squares == f64_from(tally_squares(categories))
         IN  precision_loop_skips(sol, gold, order, i + 1,
                 f64_add(weighted_sum,
                         f64_div(sum_of_squares, pi_sub_i_magnitude)))

compute_precision_skips(sol, gold, order) ==
    LET n == f64_from(member_count(sol))
        summed == precision_loop_skips(sol, gold, order, 1, Zero)
    IN  [tag |-> "f64", v |-> f64_div(summed.v, n)]

\* compute_precision, the clusters of solution coming in the given order.
compute_precision(sol, gold, order) ==
    LET n == f64_from(member_count(sol))
        summed == precision_loop(sol, gold, order, 1, Zero)
    IN  IF IsPanic(summed) THEN summed
        ELSE [tag |-> "f64", v |-> f64_div(summed.v, n)]

\* compute_recall, the clusters of gold_standard coming in the given order.
compute_recall(sol, gold, order) ==
    compute_precision(gold, sol, order)

\* BCubed::compare when the HashMaps yield the clusters in the given orders:
\* the precision is computed first, then the recall; a panic of either
\* leaves no BCubed.
compare(sol, gold, alpha, sol_order, gold_order) ==
    LET precision == compute_precision(sol, gold, sol_order)
    IN  IF IsPanic(precision) THEN precision
        ELSE LET recall == compute_recall(sol, gold, gold_order)
             IN  IF IsPanic(recall) THEN recall
                 ELSE [tag |-> "BCubed",
                       v |-> BCubed_new(precision.v, recall.v, alpha)]

\* Orders of the clusters of a Clustering, one for each value the precision
\* of it against another can have.
DistinctOrders(sol, gold) ==
    LET values == { compute_precision(sol, gold, order) : order \in Orders(sol) }
    IN  { CHOOSE order \in Orders(sol) : compute_precision(sol, gold, order) = value :
            value \in values }

-----------------------------------------------------------------------------
\* A gold standard and a solution that starts as its copy (tests/mod.rs,
\* s2_answer_key): both come from answer_key_2d on the same records, then
\* methods are called on the solution, then the two are compared.

\* The for loop of answer_key_2d (tests/data/mod.rs) from the i-th record
\* on; the i-th record has the id i - 1 and the category categories[i], and
\* category_to_first_point maps a category seen to its first id.
RECURSIVE answer_key_loop(_, _, _, _)
answer_key_loop(s, categories, i, category_to_first_point) ==
    IF i > Len(categories) THEN Outcome(s, [tag |-> "Clustering", v |-> 0])
    ELSE LET id == i - 1
             category == categories[i]
         IN  IF category \in DOMAIN category_to_first_point
             THEN LET merged == merge(s, category_to_first_point[category], id)
                  IN  IF IsPanic(merged.ret) THEN merged
                      ELSE answer_key_loop(merged.s, categories, i + 1,
                                           category_to_first_point)
             ELSE LET added == add_to_new_cluster(s, id)
                  IN  IF IsPanic(added.ret) THEN added
                      ELSE answer_key_loop(added.s, categories, i + 1,
                               MapInsert(category_to_first_point, category, id))

answer_key_2d(categories) ==
    answer_key_loop(integer_clustering, categories, 1, EmptyMap)

\* The most records of an answer key, and the most categories in them.
MaxRecords == 4

MaxLabel == 2

Ids == 0 .. (MaxRecords - 1)

AnswerKeys == UNION { [1 .. n -> 1 .. MaxLabel] : n \in 0 .. MaxRecords }

Half == Finite(1, -1)

\* The alpha of the comparison: 0.25, 0.5 and 0.75.
CompareAlphas == { Finite(1, -2), Half, Finite(3, -2) }

\* input is the sequence of the calls made on the solution, one at most as
\* in s2_answer_key, and output the outcome of BCubed::compare.
InitBCubed ==
    /\ \E categories \in AnswerKeys :
          /\ ~IsPanic(answer_key_2d(categories).ret)
          /\ gold_standard = answer_key_2d(categories).s
    /\ solution = gold_standard
    /\ input = << >>
    /\ output = None
    /\ ClusteringNotInUse

Edits(outcome, what) ==
    /\ output = None
    /\ input = << >>
    /\ ~IsPanic(outcome.ret)
    /\ solution' = outcome.s
    /\ input' = Append(input, what)
    /\ UNCHANGED << gold_standard, output, clusteringVars >>

SolutionMerge ==
    \E a, b \in Ids :
        Edits(merge(solution, a, b), [op |-> "merge", a |-> a, b |-> b])

SolutionRemoveItem ==
    \E a \in Ids :
        Edits(remove_item(solution, a), [op |-> "remove_item", a |-> a, b |-> 0])

SolutionAddToNewCluster ==
    \E a \in Ids :
        Edits(add_to_new_cluster(solution, a),
              [op |-> "add_to_new_cluster", a |-> a, b |-> 0])

SolutionMoveItem ==
    \E a \in Ids, c \in Categories :
        Edits(move_item(solution, a, c), [op |-> "move_item", a |-> a, b |-> c])

Compare ==
    /\ output = None
    /\ \E sol_order \in DistinctOrders(solution, gold_standard),
          gold_order \in DistinctOrders(gold_standard, solution),
          alpha \in CompareAlphas :
          output' = Some(compare(solution, gold_standard, alpha, sol_order, gold_order))
    /\ UNCHANGED << input, solution, gold_standard, clusteringVars >>

NextBCubed ==
    \/ SolutionMerge
    \/ SolutionRemoveItem
    \/ SolutionAddToNewCluster
    \/ SolutionMoveItem
    \/ Compare

SpecBCubed == InitBCubed /\ [][NextBCubed]_vars

\* The items of a Clustering.
ItemsOf(s) == DOMAIN s.member_to_cluster

\* The solution is the gold standard, untouched.
Untouched == input = << >>

\* C12: BCubed::compare(X, X, alpha), for any Clustering X and any alpha in
\* (0,1), yields a BCubed of precision 1 and recall 1 whose similarity() is
\* 1.0 exactly.
C12_CompareWithItself ==
    (output # None /\ Untouched)
    => /\ output[1].tag = "BCubed"
       /\ f64_eq(get_precision(output[1].v), One)
       /\ f64_eq(get_recall(output[1].v), One)
       /\ f64_eq(similarity(output[1].v), One)

\* C14: BCubed::compare of two Clusterings that do not have the same items
\* ends in the panic of the expect and yields no BCubed: an item of the
\* solution that the gold standard lacks makes compute_precision panic, an
\* item of the gold standard that the solution lacks makes compute_recall
\* panic, and compute_recall(solution, gold) is compute_precision(gold,
\* solution).
C14_MismatchedUniverses ==
    (output # None)
    => /\ (ItemsOf(solution) # ItemsOf(gold_standard))
          => output[1].tag = PanicNotPresent
       /\ (ItemsOf(solution) \ ItemsOf(gold_standard) # {})
          => \A order \in Orders(solution) :
                compute_precision(solution, gold_standard, order).tag = PanicNotPresent
       /\ (ItemsOf(gold_standard) \ ItemsOf(solution) # {})
          => \A order \in Orders(gold_standard) :
                /\ compute_recall(solution, gold_standard, order).tag = PanicNotPresent
                /\ compute_precision(gold_standard, solution, order).tag = PanicNotPresent

\* C14's case: an item was removed from a solution of several items, every
\* item of the solution has a category in the gold standard, and the
\* comparison panicked.
C14_Witness ==
    /\ output # None
    /\ ItemsOf(gold_standard) \ ItemsOf(solution) # {}
    /\ ItemsOf(solution) # {}
    /\ ItemsOf(solution) \subseteq ItemsOf(gold_standard)
    /\ output[1].tag = PanicNotPresent

\* The one call made on the solution was a merge of two items of different
\* clusters of the gold standard.
MergedTwoGoldClusters ==
    /\ Len(input) = 1
    /\ input[1].op = "merge"
    /\ get_category(gold_standard, input[1].a) # None
    /\ get_category(gold_standard, input[1].b) # None
    /\ get_category(gold_standard, input[1].a) # get_category(gold_standard, input[1].b)

\* Every cluster of the gold standard lies within one cluster of the
\* solution.
GoldWithinSolution ==
    \A g \in DOMAIN gold_standard.clusters :
        \E c \in DOMAIN solution.clusters :
            gold_standard.clusters[g].members \subseteq solution.clusters[c].members

\* C15: after one merge(a, b) on a copy of the gold standard, a and b in
\* different clusters of it, BCubed::compare(solution, gold, 0.5) has the
\* recall 1.0 exactly, a precision below 1.0 and a similarity() below 1.0;
\* and the recall is 1.0 whenever every cluster of the gold standard lies
\* within one cluster of the solution.
C15_MergeHurtsPrecisionOnly ==
    (output # None /\ output[1].tag = "BCubed")
    => /\ (MergedTwoGoldClusters /\ output[1].v.alpha = Half)
          => /\ f64_eq(get_recall(output[1].v), One)
             /\ f64_lt(get_precision(output[1].v), One)
             /\ f64_lt(similarity(output[1].v), One)
       /\ GoldWithinSolution => f64_eq(get_recall(output[1].v), One)

\* C15's case: two clusters of a gold standard of three were merged and the
\* result compared with it at alpha 0.5.
C15_Witness ==
    /\ output # None
    /\ output[1].tag = "BCubed"
    /\ MergedTwoGoldClusters
    /\ output[1].v.alpha = Half
    /\ cluster_count(gold_standard) = 2
    /\ cluster_count(solution) = 1
    /\ member_count(solution) = 4
    /\ f64_lt(get_precision(output[1].v), One)

-----------------------------------------------------------------------------
\* AdjacentPairDistance (single_linkage.rs).  A Point has an id and
\* coordinates; its square_distance to another is the sum over the
\* dimensions of the squared differences.

Point(id, coordinates) == [id |-> id, coordinates |-> coordinates]

get_id(p) == p.id

RECURSIVE sum_of_squared_differences(_, _, _)
sum_of_squared_differences(c1, c2, d) ==
    IF d > Len(c1) THEN 0
    ELSE (c1[d] - c2[d]) * (c1[d] - c2[d]) + sum_of_squared_differences(c1, c2, d + 1)

square_distance(p1, p2) ==
    sum_of_squared_differences(p1.coordinates, p2.coordinates, 1)

AdjacentPairDistance_new(p1, p2, index1, index2) ==
    [square_distance |-> square_distance(p1, p2),
     first_index |-> index1,
     second_index |-> index2,
     first_id |-> get_id(p1),
     second_id |-> get_id(p2)]

\* An all_pairs that counts the pairs from 1.
all_pairs_from_one(points) ==
    IF Len(points) <= 1 THEN << >>
    ELSE [k \in 1 .. Len(points) - 1 |->
             AdjacentPairDistance_new(points[k], points[k + 1], k, k + 1)]

\* all_pairs: the k-th push (k from 1) has index = k - 1, previous the point
\* at index and current the point at index + 1.
all_pairs(points) ==
    IF Len(points) <= 1 THEN << >>
    ELSE [k \in 1 .. Len(points) - 1 |->
             AdjacentPairDistance_new(points[k], points[k + 1], k - 1, k)]

\* The most points all_pairs is called on, and their largest coordinate.
MaxPairPoints == 3

MaxCoordinate == 1

\* Points of two dimensions, with ids that are no indices.
PairPoints ==
    { Point(id, << x, y >>) : id \in { 7, 9 }, x \in 0 .. MaxCoordinate,
                              y \in 0 .. MaxCoordinate }

InitPairs ==
    /\ input \in UNION { [1 .. n -> PairPoints] : n \in 0 .. MaxPairPoints }
    /\ output = None
    /\ ClusteringNotInUse
    /\ BCubedNotInUse

AllPairs ==
    /\ output = None
    /\ output' = Some(all_pairs(input))
    /\ UNCHANGED << input, clusteringVars, bcubedVars >>

NextPairs == AllPairs

SpecPairs == InitPairs /\ [][NextPairs]_vars

\* C16: all_pairs on N points returns N - 1 records when N >= 2 and none
\* when N <= 1; record i (from 0) has first_index i, second_index i + 1, the
\* ids of the points i and i + 1 and the square distance between the two;
\* the points are as they were.
C16_AllPairs ==
    (output # None)
    => LET N == Len(input)
           pairs == output[1]
       IN  /\ N >= 2 => Len(pairs) = N - 1
           /\ N <= 1 => pairs = << >>
           /\ \A i \in 0 .. Len(pairs) - 1 :
                 /\ pairs[i + 1].first_index = i
                 /\ pairs[i + 1].second_index = i + 1
                 /\ pairs[i + 1].first_id = input[i + 1].id
                 /\ pairs[i + 1].second_id = input[i + 2].id
                 /\ pairs[i + 1].square_distance
                      = (input[i + 1].coordinates[1] - input[i + 2].coordinates[1])
                          * (input[i + 1].coordinates[1] - input[i + 2].coordinates[1])
                        + (input[i + 1].coordinates[2] - input[i + 2].coordinates[2])
                          * (input[i + 1].coordinates[2] - input[i + 2].coordinates[2])

\* C16's case: three points gave two records, the second of them between
\* points of different ids that differ by one in both coordinates.
C16_Witness ==
    /\ output # None
    /\ Len(input) = 3
    /\ Len(output[1]) = 2
    /\ output[1][2].first_index = 1
    /\ output[1][2].first_id # output[1][2].second_id
    /\ output[1][2].square_distance = 2

-----------------------------------------------------------------------------
\* SingleLinkage::new and estimate_cluster_counts (single_linkage.rs).

\* The defaults of SingleLinkage::new.
DefaultMinimumClusterCount == 10

DefaultNoiseSkipBy == 5

DefaultOutlierClusterSize == 10

\* (num_points as f64).sqrt() / 2.0 as an integer: the largest k with
\* (2k)^2 <= num_points.
RECURSIVE HalfSqrt(_, _)
HalfSqrt(num_points, k) ==
    IF (2 * (k + 1)) * (2 * (k + 1)) > num_points THEN k
    ELSE HalfSqrt(num_points, k + 1)

SingleLinkage_new(num_points, bits_per_dimension) ==
    LET minimum_cluster_count == HalfSqrt(num_points, 0)
    IN  [bits_per_dimension |-> bits_per_dimension,
         minimum_cluster_count |->
             IF minimum_cluster_count < DefaultMinimumClusterCount
             THEN DefaultMinimumClusterCount ELSE minimum_cluster_count,
         need_to_sort_by_hilbert_curve |-> FALSE,
         noise_skip_by |-> DefaultNoiseSkipBy,
         outlier_cluster_size |-> DefaultOutlierClusterSize,
         sort_distances_completely |-> TRUE,
         lowest_index_for_checking_growth_ratio |-> num_points \div 2]

LinkageResult_new ==
    [linkage_square_distance |-> 0,
     count_of_too_large_distances |-> 0,
     large_cluster_count |-> 0,
     outlier_cluster_count |-> 0,
     outlier_count |-> 0]

\* A count_run that takes a run of outlier_cluster_size points for large.
count_run_strict(self, linkage, cluster_size) ==
    IF cluster_size < self.outlier_cluster_size
    THEN [linkage EXCEPT !.outlier_cluster_count = @ + 1,
                         !.outlier_count = @ + cluster_size]
    ELSE [linkage EXCEPT !.large_cluster_count = @ + 1]

\* The run that ends is an outlier cluster if it has at most
\* outlier_cluster_size points and a large cluster if not.
count_run(self, linkage, cluster_size) ==
    IF cluster_size <= self.outlier_cluster_size
    THEN [linkage EXCEPT !.outlier_cluster_count = @ + 1,
                         !.outlier_count = @ + cluster_size]
    ELSE [linkage EXCEPT !.large_cluster_count = @ + 1]

\* A count_last_point that forgets the point.
count_last_point_forgotten(linkage) == linkage

\* "Finish off the last cluster, a single point."
count_last_point(linkage) ==
    [linkage EXCEPT !.outlier_cluster_count = @ + 1, !.outlier_count = @ + 1]

\* The for loop of estimate_cluster_counts from the k-th pair on.
RECURSIVE estimate_loop(_, _, _, _, _, _, _)
estimate_loop(self, hilbert_sorted_distances, linkage_square_distance, k, linkage, start_index_for_cluster, final_id) ==
    IF k > Len(hilbert_sorted_distances) THEN linkage
    ELSE LET pair == hilbert_sorted_distances[k] IN
         IF pair.square_distance > linkage_square_distance
         THEN LET cluster_size == pair.second_index - start_index_for_cluster
                  counted == [count_run(self, linkage, cluster_size)
                                 EXCEPT !.count_of_too_large_distances = @ + 1]
              IN  estimate_loop(self, hilbert_sorted_distances,
                      linkage_square_distance, k + 1,
                      IF pair.second_id = final_id
                      THEN count_last_point(counted) ELSE counted,
                      pair.second_index, final_id)
         ELSE IF pair.second_id = final_id
         THEN LET cluster_size == pair.second_index - start_index_for_cluster + 1
              IN  estimate_loop(self, hilbert_sorted_distances,
                      linkage_square_distance, k + 1,
                      count_run(self, linkage, cluster_size),
                      start_index_for_cluster, final_id)
         ELSE estimate_loop(self, hilbert_sorted_distances,
                  linkage_square_distance, k + 1, linkage,
                  start_index_for_cluster, final_id)

\* An estimate_cluster_counts without the check for zero.
estimate_cluster_counts_unchecked(self, hilbert_sorted_distances, linkage_square_distance) ==
    IF hilbert_sorted_distances = << >> THEN Panic(PanicUnwrapNone)
    ELSE [tag |-> "LinkageResult",
          v |-> estimate_loop(self, hilbert_sorted_distances,
                    linkage_square_distance, 1,
                    [LinkageResult_new EXCEPT
                        !.linkage_square_distance = linkage_square_distance],
                    0,
                    hilbert_sorted_distances[Len(hilbert_sorted_distances)].second_id)]

\* estimate_cluster_counts: a zero linkage_square_distance panics, and so
\* does the unwrap of last() when there is no pair.
estimate_cluster_counts(self, hilbert_sorted_distances, linkage_square_distance) ==
    IF linkage_square_distance = 0 THEN Panic(PanicZeroLinkage)
    ELSE IF hilbert_sorted_distances = << >> THEN Panic(PanicUnwrapNone)
    ELSE [tag |-> "LinkageResult",
          v |-> estimate_loop(self, hilbert_sorted_distances,
                    linkage_square_distance, 1,
                    [LinkageResult_new EXCEPT
                        !.linkage_square_distance = linkage_square_distance],
                    0,
                    hilbert_sorted_distances[Len(hilbert_sorted_distances)].second_id)]

-----------------------------------------------------------------------------
\* estimate_cluster_counts on the pairs of points in curve order.

\* The most points, and the largest linkage_square_distance tried.
MaxPoints == 12

MaxThreshold == 5

\* The distance from a point to the next along the one coordinate.
Steps == { 1, 2 }

\* The points that lie the given steps apart: n of them for n - 1 steps,
\* with the distinct ids n - 1 down to 0.
RECURSIVE PointsFrom(_, _, _)
PointsFrom(steps, i, points) ==
    IF i > Len(steps) THEN points
    ELSE PointsFrom(steps, i + 1,
             Append(points, Point(Len(steps) - i,
                                  << points[i].coordinates[1] + steps[i] >>)))

PointsApart(steps) == PointsFrom(steps, 1, << Point(Len(steps), << 0 >>) >>)

CurvePoints ==
    { << >> } \cup UNION { { PointsApart(steps) : steps \in [1 .. n -> Steps] } :
                           n \in 0 .. MaxPoints - 1 }

\* bits_per_dimension as in tests/single_linkage.rs.
TestBits == 20

InitEstimate ==
    /\ \E points \in CurvePoints, linkage_square_distance \in 0 .. MaxThreshold :
          input = [self |-> SingleLinkage_new(Len(points), TestBits),
                   points |-> points,
                   linkage_square_distance |-> linkage_square_distance]
    /\ output = None
    /\ ClusteringNotInUse
    /\ BCubedNotInUse

EstimateClusterCounts ==
    /\ output = None
    /\ output' = Some(estimate_cluster_counts(input.self, all_pairs(input.points),
                                              input.linkage_square_distance))
    /\ UNCHANGED << input, clusteringVars, bcubedVars >>

NextEstimate == EstimateClusterCounts

SpecEstimate == InitEstimate /\ [][NextEstimate]_vars

\* The reference: the points are 0 .. N - 1, the pair k (from 1) joins the
\* points k - 1 and k, and a run is a maximal stretch of consecutive points
\* with no pair farther apart than t between them.
TooLarge(pairs, t) == { k \in 1 .. Len(pairs) : pairs[k].square_distance > t }

RunStarts(pairs, t) == { 0 } \cup TooLarge(pairs, t)

RunSize(pairs, t, start) ==
    LET later == { s \in RunStarts(pairs, t) : s > start }
    IN  IF later = {} THEN Len(pairs) + 1 - start
        ELSE (CHOOSE s \in later : \A s2 \in later : s <= s2) - start

RECURSIVE SumOfRunSizes(_, _, _)
SumOfRunSizes(pairs, t, starts) ==
    IF starts = {} THEN 0
    ELSE LET s == CHOOSE x \in starts : TRUE
         IN  RunSize(pairs, t, s) + SumOfRunSizes(pairs, t, starts \ {s})

LargeRuns(pairs, t) ==
    { s \in RunStarts(pairs, t) : RunSize(pairs, t, s) > DefaultOutlierClusterSize }

OutlierRuns(pairs, t) ==
    { s \in RunStarts(pairs, t) : RunSize(pairs, t, s) <= DefaultOutlierClusterSize }

\* The call was on the pairs of at least two points with a positive
\* linkage_square_distance.
Estimated ==
    /\ output # None
    /\ Len(input.points) >= 2
    /\ input.linkage_square_distance > 0

\* C17: estimate_cluster_counts(distances, t) with t > 0 on the pairs of
\* N >= 2 points of distinct ids gives the counts of the reference:
\* count_of_too_large_distances the pairs farther apart than t,
\* large_cluster_count the runs of more than outlier_cluster_size points,
\* outlier_cluster_count the runs of at most that many, outlier_count the
\* points in those, and linkage_square_distance t; the last run, a last run
\* of one point too, is counted.
C17_EstimateMatchesRuns ==
    Estimated
    => LET pairs == all_pairs(input.points)
           t == input.linkage_square_distance
       IN  /\ output[1].tag = "LinkageResult"
           /\ output[1].v.count_of_too_large_distances = Cardinality(TooLarge(pairs, t))
           /\ output[1].v.large_cluster_count = Cardinality(LargeRuns(pairs, t))
           /\ output[1].v.outlier_cluster_count = Cardinality(OutlierRuns(pairs, t))
           /\ output[1].v.outlier_count = SumOfRunSizes(pairs, t, OutlierRuns(pairs, t))
           /\ output[1].v.linkage_square_distance = t

\* C17's case: a large run, then a pair farther apart than t, then a last
\* run of one point.
C17_Witness ==
    /\ Estimated
    /\ output[1].tag = "LinkageResult"
    /\ output[1].v.large_cluster_count = 1
    /\ output[1].v.outlier_cluster_count = 1
    /\ output[1].v.outlier_count = 1
    /\ output[1].v.count_of_too_large_distances = 1
    /\ all_pairs(input.points)[Len(input.points) - 1].square_distance
          > input.linkage_square_distance

\* C18: for a non-empty sequence of pairs and a t > 0, large_cluster_count +
\* outlier_cluster_count is count_of_too_large_distances + 1; with t the
\* largest distance plus one there is no break and the sum is 1.
C18_ClustersAreBreaksPlusOne ==
    Estimated
    => LET pairs == all_pairs(input.points)
           t == input.linkage_square_distance
       IN  /\ output[1].tag = "LinkageResult"
           /\ output[1].v.large_cluster_count + output[1].v.outlier_cluster_count
                = output[1].v.count_of_too_large_distances + 1
           /\ (\E k \in 1 .. Len(pairs) :
                  /\ pairs[k].square_distance + 1 = t
                  /\ \A j \in 1 .. Len(pairs) :
                        pairs[j].square_distance <= pairs[k].square_distance)
              => /\ output[1].v.count_of_too_large_distances = 0
                 /\ output[1].v.large_cluster_count + output[1].v.outlier_cluster_count = 1

\* C18's case: three breaks, the last before the last point, gave four
\* clusters.
C18_Witness ==
    /\ Estimated
    /\ output[1].tag = "LinkageResult"
    /\ output[1].v.count_of_too_large_distances = 3
    /\ output[1].v.large_cluster_count + output[1].v.outlier_cluster_count = 4
    /\ all_pairs(input.points)[Len(input.points) - 1].square_distance
          > input.linkage_square_distance

-----------------------------------------------------------------------------
\* SingleLinkage::find by sorting (single_linkage.rs).

\* usize arithmetic.  A build with overflow checks (the debug profile)
\* panics when a result leaves 0 .. 2^UsizeBits - 1 and a build without
\* them (the release profile) wraps it; the width is scaled down from 64.
UsizeBits == 16

Profiles == { "debug", "release" }

usize(value) == [tag |-> "usize", v |-> value]

usize_sub(profile, a, b) ==
    IF a >= b THEN usize(a - b)
    ELSE IF profile = "debug" THEN Panic(PanicSubtractOverflow)
    ELSE usize(a - b + Pow2(UsizeBits))

usize_mul(profile, a, b) ==
    IF a * b < Pow2(UsizeBits) THEN usize(a * b)
    ELSE IF profile = "debug" THEN Panic(PanicMultiplyOverflow)
    ELSE usize((a * b) % Pow2(UsizeBits))

usize_add(profile, a, b) ==
    IF a + b < Pow2(UsizeBits) THEN usize(a + b)
    ELSE IF profile = "debug" THEN Panic(PanicAddOverflow)
    ELSE usize((a + b) % Pow2(UsizeBits))

\* Ord for AdjacentPairDistance: by square_distance, then first_index, then
\* second_index.
pair_lt(p, q) ==
    \/ p.square_distance < q.square_distance
    \/ /\ p.square_distance = q.square_distance
       /\ \/ p.first_index < q.first_index
          \/ p.first_index = q.first_index /\ p.second_index < q.second_index

\* Vec::sort, a stable merge sort: the two sorted halves are merged, a pair
\* of the second half going first only when it is less.
RECURSIVE merge_runs(_, _)
merge_runs(left, right) ==
    IF left = << >> THEN right
    ELSE IF right = << >> THEN left
    ELSE IF pair_lt(right[1], left[1])
    THEN << right[1] >> \o merge_runs(left, Tail(right))
    ELSE << left[1] >> \o merge_runs(Tail(left), right)

RECURSIVE sort(_)
sort(distances) ==
    IF Len(distances) <= 1 THEN distances
    ELSE LET half == Len(distances) \div 2
         IN  merge_runs(sort(SubSeq(distances, 1, half)),
                        sort(SubSeq(distances, half + 1, Len(distances))))

\* A ratio of two u64 as f64, kept as the fraction: an f64 tells apart any
\* two fractions of the small numbers met here.
Ratio(num, den) == [num |-> num, den |-> den]

ratio_gt(r1, r2) == r1.num * r2.den > r2.num * r1.den

DistanceGrowthStats_new ==
    [index_of_maximum_increase |-> 0,
     index_of_maximum_ratio |-> 0,
     index_of_maximum_increase_and_ratio |-> 0,
     max_increase_alone |-> 0,
     max_ratio_alone |-> Ratio(0, 1),
     max_increase_paired |-> 0,
     max_ratio_paired |-> Ratio(0, 1)]

\* An accumulate that takes a value as high as the maximum for higher.
accumulate_as_high(stats, index, previous_value, new_value) ==
    LET delta == new_value - previous_value
        ratio == Ratio(new_value, previous_value)
        higher_increase == delta >= stats.max_increase_alone
        higher_ratio == ~ratio_gt(stats.max_ratio_alone, ratio)
        stats1 == IF higher_increase
                  THEN [stats EXCEPT !.max_increase_alone = delta,
                                     !.index_of_maximum_increase = index]
                  ELSE stats
        stats2 == IF higher_ratio
                  THEN [stats1 EXCEPT !.max_ratio_alone = ratio,
                                      !.index_of_maximum_ratio = index]
                  ELSE stats1
    IN  IF previous_value = 0 THEN stats
        ELSE IF higher_increase /\ higher_ratio
        THEN [stats2 EXCEPT !.index_of_maximum_increase_and_ratio = index,
                            !.max_increase_paired = delta,
                            !.max_ratio_paired = ratio]
        ELSE stats2

\* DistanceGrowthStats::accumulate; the distances are sorted, so new_value -
\* previous_value does not overflow.
accumulate(stats, index, previous_value, new_value) ==
    LET delta == new_value - previous_value
        ratio == Ratio(new_value, previous_value)
        higher_increase == delta > stats.max_increase_alone
        higher_ratio == ratio_gt(ratio, stats.max_ratio_alone)
        stats1 == IF higher_increase
                  THEN [stats EXCEPT !.max_increase_alone = delta,
                                     !.index_of_maximum_increase = index]
                  ELSE stats
        stats2 == IF higher_ratio
                  THEN [stats1 EXCEPT !.max_ratio_alone = ratio,
                                      !.index_of_maximum_ratio = index]
                  ELSE stats1
    IN  IF previous_value = 0 THEN stats
        ELSE IF higher_increase /\ higher_ratio
        THEN [stats2 EXCEPT !.index_of_maximum_increase_and_ratio = index,
                            !.max_increase_paired = delta,
                            !.max_ratio_paired = ratio]
        ELSE stats2

Max(x, y) == IF x > y THEN x ELSE y

\* A get_index_of_max_change that returns the index of the maximum increase
\* or of the maximum ratio as recorded, without clamping it.
get_index_of_max_change_unclamped(stats, i_low_paired, i_high, profile) ==
    LET difference == usize_sub(profile, i_high, i_low_paired)
        product == usize_mul(profile, difference.v, 3)
        sum == usize_add(profile, i_low_paired, product.v \div 4)
        i_conservative == sum.v
    IN  IF IsPanic(difference) THEN difference
        ELSE IF IsPanic(product) THEN product
        ELSE IF IsPanic(sum) THEN sum
        ELSE IF stats.index_of_maximum_increase_and_ratio > i_high
        THEN usize(i_high)
        ELSE IF stats.index_of_maximum_increase_and_ratio > i_conservative
        THEN usize(stats.index_of_maximum_increase_and_ratio)
        ELSE IF stats.index_of_maximum_ratio < i_conservative
        THEN usize(stats.index_of_maximum_increase)
        ELSE IF stats.index_of_maximum_increase < i_conservative
        THEN usize(stats.index_of_maximum_ratio)
        ELSE usize(Min(Min(i_high, stats.index_of_maximum_increase),
                       stats.index_of_maximum_ratio))

\* A get_index_of_max_change whose i_conservative is rounded up, not down.
get_index_of_max_change_rounds_up(stats, i_low_paired, i_high, profile) ==
    LET difference == usize_sub(profile, i_high, i_low_paired)
        product == usize_mul(profile, difference.v, 3)
        sum == usize_add(profile, i_low_paired, (product.v + 3) \div 4)
        i_conservative == sum.v
    IN  IF IsPanic(difference) THEN difference
        ELSE IF IsPanic(product) THEN product
        ELSE IF IsPanic(sum) THEN sum
        ELSE IF stats.index_of_maximum_increase_and_ratio > i_high
        THEN usize(i_high)
        ELSE IF stats.index_of_maximum_increase_and_ratio > i_conservative
        THEN usize(stats.index_of_maximum_increase_and_ratio)
        ELSE IF stats.index_of_maximum_ratio < i_conservative
        THEN usize(Max(Min(i_high, stats.index_of_maximum_increase), i_low_paired))
        ELSE IF stats.index_of_maximum_increase < i_conservative
        THEN usize(Max(Min(i_high, stats.index_of_maximum_ratio), i_low_paired))
        ELSE usize(Min(Min(i_high, stats.index_of_maximum_increase),
                       stats.index_of_maximum_ratio))

\* DistanceGrowthStats::get_index_of_max_change; i_high - i_low_paired, its
\* product with 3 and the sum with i_low_paired are usize arithmetic.
get_index_of_max_change(stats, i_low_paired, i_high, profile) ==
    LET difference == usize_sub(profile, i_high, i_low_paired)
        product == usize_mul(profile, difference.v, 3)
        sum == usize_add(profile, i_low_paired, product.v \div 4)
        i_conservative == sum.v
    IN  IF IsPanic(difference) THEN difference
        ELSE IF IsPanic(product) THEN product
        ELSE IF IsPanic(sum) THEN sum
        ELSE IF stats.index_of_maximum_increase_and_ratio > i_high
        THEN usize(i_high)
        ELSE IF stats.index_of_maximum_increase_and_ratio > i_conservative
        THEN usize(stats.index_of_maximum_increase_and_ratio)
        ELSE IF stats.index_of_maximum_ratio < i_conservative
        THEN usize(Max(Min(i_high, stats.index_of_maximum_increase), i_low_paired))
        ELSE IF stats.index_of_maximum_increase < i_conservative
        THEN usize(Max(Min(i_high, stats.index_of_maximum_ratio), i_low_paired))
        ELSE usize(Min(Min(i_high, stats.index_of_maximum_increase),
                       stats.index_of_maximum_ratio))

\* The for loop of find_by_sorting from i_distance on; the indices are from
\* 0 and an index at or past the length of sorted_distances panics.
RECURSIVE sorting_loop(_, _, _, _, _)
sorting_loop(self, sorted_distances, i_distance, conservative_high_index, stats) ==
    IF i_distance >= conservative_high_index
    THEN [tag |-> "DistanceGrowthStats", v |-> stats]
    ELSE IF i_distance >= Len(sorted_distances) THEN Panic(PanicIndexOutOfBounds)
    ELSE LET distance == sorted_distances[i_distance + 1].square_distance
             previous_index == i_distance - 1 - self.noise_skip_by
             previous_distance == sorted_distances[previous_index + 1].square_distance
         IN  sorting_loop(self, sorted_distances, i_distance + 1,
                          conservative_high_index,
                          accumulate(stats, i_distance, previous_distance, distance))

\* The index find_by_sorting reads the linkage distance at.
index_to_use(self, points, sorted_distances, profile) ==
    LET start_index == 1 + self.noise_skip_by
                         + self.lowest_index_for_checking_growth_ratio
        conservative_high_index ==
            usize_sub(profile, Len(points), self.minimum_cluster_count)
        stats == sorting_loop(self, sorted_distances, start_index,
                              conservative_high_index.v, DistanceGrowthStats_new)
    IN  IF IsPanic(conservative_high_index) THEN conservative_high_index
        ELSE IF IsPanic(stats) THEN stats
        ELSE get_index_of_max_change(stats.v,
                 self.lowest_index_for_checking_growth_ratio,
                 conservative_high_index.v, profile)

\* A find_by_sorting that does not estimate the counts of a zero distance but
\* returns it.
find_by_sorting_returns_zero(self, points, distances, profile) ==
    LET sorted_distances == sort(distances)
        index == index_to_use(self, points, sorted_distances, profile)
    IN  IF IsPanic(index) THEN index
        ELSE IF index.v >= Len(sorted_distances) THEN Panic(PanicIndexOutOfBounds)
        ELSE estimate_cluster_counts_unchecked(self, distances,
                 sorted_distances[index.v + 1].square_distance)

find_by_sorting(self, points, distances, profile) ==
    LET sorted_distances == sort(distances)
        index == index_to_use(self, points, sorted_distances, profile)
    IN  IF IsPanic(index) THEN index
        ELSE IF index.v >= Len(sorted_distances) THEN Panic(PanicIndexOutOfBounds)
        ELSE estimate_cluster_counts(self, distances,
                 sorted_distances[index.v + 1].square_distance)

\* SingleLinkage::find of a SingleLinkage as SingleLinkage::new makes it:
\* the points are taken to be in curve order already and the distances are
\* sorted completely.
find(self, points, profile) ==
    find_by_sorting(self, points, all_pairs(points), profile)

\* The most points find is called on.
MaxFindPoints == 36

\* n times the step.
Block(n, step) == [i \in 1 .. n |-> step]

\* The points find is called on: some coincide with the one before, some
\* lie 1 and some lie 3 from it.
FindPoints ==
    { << >> } \cup
    UNION { UNION { { PointsApart(Block(zeros, 0) \o Block(ones, 1) \o Block(threes, 3)) :
                        threes \in 0 .. MaxFindPoints - 1 - zeros - ones } :
                    ones \in 0 .. MaxFindPoints - 1 - zeros } :
            zeros \in 0 .. MaxFindPoints - 1 }

InitFind ==
    /\ \E points \in FindPoints, profile \in Profiles :
          input = [self |-> SingleLinkage_new(Len(points), TestBits),
                   points |-> points,
                   profile |-> profile]
    /\ output = None
    /\ ClusteringNotInUse
    /\ BCubedNotInUse

Find ==
    /\ output = None
    /\ output' = Some(find(input.self, input.points, input.profile))
    /\ UNCHANGED << input, clusteringVars, bcubedVars >>

NextFind == Find

SpecFind == InitFind /\ [][NextFind]_vars

\* The index find selected, when it got as far as selecting one within the
\* sorted distances, holds a zero distance.
SelectedZero ==
    LET sorted_distances == sort(all_pairs(input.points))
        index == index_to_use(input.self, input.points, sorted_distances,
                              input.profile)
    IN  /\ ~IsPanic(index)
        /\ index.v < Len(sorted_distances)
        /\ sorted_distances[index.v + 1].square_distance = 0

AllCoincide ==
    \A i, j \in 1 .. Len(input.points) :
        input.points[i].coordinates = input.points[j].coordinates

C20_FindWithinDistances ==
    (output # None /\ Len(input.points) >= 2)
    => /\ output[1].tag = "LinkageResult"
       /\ output[1].v.linkage_square_distance > 0
       /\ \E k \in 1 .. Len(input.points) - 1 :
             output[1].v.linkage_square_distance
                <= all_pairs(input.points)[k].square_distance

-----------------------------------------------------------------------------
\* MostSignificantBit (msb.rs).

\* An unsigned integer is the set of the positions of its bits that are set:
\* 0 is the empty set and 1 << n is { n }.
MsbBits16 == 16
MsbBits32 == 32
MsbBits64 == 64

\* (1 << high) - (1 << mid) with mid < high: the bits mid .. high - 1.
mask_high(high, mid) == mid .. high - 1

\* The highest position of a number that is not 0.
HighestBit(x) == CHOOSE n \in x : \A m \in x : m <= n

\* u64::leading_zeros.
leading_zeros(x, width) == IF x = { } THEN width ELSE width - 1 - HighestBit(x)

\* msb for u64.
msb_u64(self) ==
    LET z == leading_zeros(self, MsbBits64)
    IN  IF z = MsbBits64 THEN 0 ELSE MsbBits64 - 1 - z

\* The bisection of msb for u32 and for u16, which differ in the first high.
RECURSIVE msb_bisection(_, _, _)
msb_bisection(self, high, low) ==
    IF high - low > 1
    THEN LET mid == (high + low) \div 2
         IN  IF mask_high(high, mid) \cap self # { }
             THEN msb_bisection(self, high, mid)
             ELSE msb_bisection(self, mid, low)
    ELSE low

msb_u32(self) == msb_bisection(self, MsbBits32 - 1, 0)

msb_u16(self) == msb_bisection(self, MsbBits16 - 1, 0)

\* The most bits set in a number msb is called on.
MaxBitsSet == 2

\* The numbers of a width with at most MaxBitsSet bits set.
RECURSIVE NumbersOf(_, _)
NumbersOf(width, bits) ==
    IF bits = 0 THEN { { } }
    ELSE LET fewer == NumbersOf(width, bits - 1)
         IN  fewer \cup { x \cup { n } : x \in fewer, n \in 0 .. width - 1 }

Numbers(width) == NumbersOf(width, MaxBitsSet)

InitMsb ==
    /\ \E width \in { MsbBits16, MsbBits32, MsbBits64 } :
          \E x \in Numbers(width) : input = [width |-> width, x |-> x]
    /\ output = None
    /\ ClusteringNotInUse
    /\ BCubedNotInUse

MsbU16 ==
    /\ output = None
    /\ input.width = MsbBits16
    /\ output' = Some(msb_u16(input.x))
    /\ UNCHANGED << input, clusteringVars, bcubedVars >>

MsbU32 ==
    /\ output = None
    /\ input.width = MsbBits32
    /\ output' = Some(msb_u32(input.x))
    /\ UNCHANGED << input, clusteringVars, bcubedVars >>

MsbU64 ==
    /\ output = None
    /\ input.width = MsbBits64
    /\ output' = Some(msb_u64(input.x))
    /\ UNCHANGED << input, clusteringVars, bcubedVars >>

NextMsb == MsbU16 \/ MsbU32 \/ MsbU64

SpecMsb == InitMsb /\ [][NextMsb]_vars

\* floor(log2(x)) of a number that is not 0: the n with 2^n <= x < 2^(n+1).
FloorLog2(x) == HighestBit(x)

\* C21: for every x of u16, u32 and u64, x.msb() is the zero-based position
\* of the most significant set bit of x, floor(log2(x)), and 0 when x is 0,
\* the values with the top bit set included.
C21_Msb ==
    (output # None)
    => output[1] = IF input.x = { } THEN 0 ELSE FloorLog2(input.x)

-----------------------------------------------------------------------------
\* DistanceGrowthStats::get_index_of_max_change on any three recorded
\* indices (single_linkage.rs).

\* The highest index get_index_of_max_change is called on or has recorded.
MaxIndex == 6

Indices == 0 .. MaxIndex

\* A DistanceGrowthStats that has recorded the three indices.
StatsOf(paired, delta, ratio) ==
    [DistanceGrowthStats_new EXCEPT
        !.index_of_maximum_increase_and_ratio = paired,
        !.index_of_maximum_increase = delta,
        !.index_of_maximum_ratio = ratio]

InitResolve ==
    /\ \E i_low_paired \in Indices, paired \in Indices, delta \in Indices,
          ratio \in Indices, profile \in Profiles :
          \E i_high \in i_low_paired .. MaxIndex :
             input = [stats |-> StatsOf(paired, delta, ratio),
                      i_low_paired |-> i_low_paired,
                      i_high |-> i_high,
                      profile |-> profile]
    /\ output = None
    /\ ClusteringNotInUse
    /\ BCubedNotInUse

GetIndexOfMaxChange ==
    /\ output = None
    /\ output' = Some(get_index_of_max_change(input.stats, input.i_low_paired,
                                              input.i_high, input.profile))
    /\ UNCHANGED << input, clusteringVars, bcubedVars >>

NextResolve == GetIndexOfMaxChange

SpecResolve == InitResolve /\ [][NextResolve]_vars

\* x clamped to [low, high].
Clamped(x, low, high) == IF x < low THEN low ELSE IF x > high THEN high ELSE x

PairedIndex == input.stats.index_of_maximum_increase_and_ratio
DeltaIndex == input.stats.index_of_maximum_increase
RatioIndex == input.stats.index_of_maximum_ratio

\* x < low + 0.75 * (high - low), in quarters.
BelowThreeQuarters(x) ==
    4 * x < 4 * input.i_low_paired + 3 * (input.i_high - input.i_low_paired)

\* x > low + 0.75 * (high - low), in quarters.
AboveThreeQuarters(x) ==
    4 * x > 4 * input.i_low_paired + 3 * (input.i_high - input.i_low_paired)

\* low + floor(3 * (high - low) / 4).
ConservativeIndex ==
    input.i_low_paired + (3 * (input.i_high - input.i_low_paired)) \div 4

\* C22 as stated: with conservative = low + 0.75 * (high - low),
\* get_index_of_max_change(low, high) returns high if paired-index > high;
\* else paired-index if paired-index > conservative; else delta-index
\* clamped to [low, high] if ratio-index < conservative; else ratio-index
\* clamped to [low, high] if delta-index < conservative; else the smaller
\* of delta-index and ratio-index.
C22_ElbowRuleThreeQuarters ==
    (output # None)
    => output[1] = usize(
          IF PairedIndex > input.i_high THEN input.i_high
          ELSE IF AboveThreeQuarters(PairedIndex) THEN PairedIndex
          ELSE IF BelowThreeQuarters(RatioIndex)
          THEN Clamped(DeltaIndex, input.i_low_paired, input.i_high)
          ELSE IF BelowThreeQuarters(DeltaIndex)
          THEN Clamped(RatioIndex, input.i_low_paired, input.i_high)
          ELSE Min(DeltaIndex, RatioIndex))

\* C22 amended: with conservative = low + floor(3 * (high - low) / 4),
\* get_index_of_max_change(low, high) returns high if paired-index > high;
\* else paired-index if paired-index > conservative; else delta-index
\* clamped to [low, high] if ratio-index < conservative; else ratio-index
\* clamped to [low, high] if delta-index < conservative; else the smallest
\* of high, delta-index and ratio-index.
C22_ElbowRule ==
    (output # None)
    => output[1] = usize(
          IF PairedIndex > input.i_high THEN input.i_high
          ELSE IF PairedIndex > ConservativeIndex THEN PairedIndex
          ELSE IF RatioIndex < ConservativeIndex
          THEN Clamped(DeltaIndex, input.i_low_paired, input.i_high)
          ELSE IF DeltaIndex < ConservativeIndex
          THEN Clamped(RatioIndex, input.i_low_paired, input.i_high)
          ELSE Min(input.i_high, Min(DeltaIndex, RatioIndex)))

\* C22's case: the ratio-index is the conservative index rounded down, below
\* low + 0.75 * (high - low), and the result is the ratio-index, not the
\* delta-index.
C22_Witness ==
    /\ output # None
    /\ PairedIndex <= ConservativeIndex
    /\ RatioIndex = ConservativeIndex
    /\ BelowThreeQuarters(RatioIndex)
    /\ DeltaIndex > RatioIndex
    /\ DeltaIndex <= input.i_high
    /\ output[1] = usize(RatioIndex)

-----------------------------------------------------------------------------
\* The scan of find_by_sorting on a configured SingleLinkage
\* (single_linkage.rs).

with_noise_skip_by(self, noise_skip_by) ==
    [self EXCEPT !.noise_skip_by = noise_skip_by]

with_minimum_cluster_count(self, min_cluster_count) ==
    [self EXCEPT !.minimum_cluster_count = Max(min_cluster_count, 6)]

with_lowest_index_for_checking_growth_ratio(self, index) ==
    [self EXCEPT !.lowest_index_for_checking_growth_ratio = index]

\* find_by_sorting up to the end of its for loop: the DistanceGrowthStats
\* the loop leaves, or the panic that ends it.
scan(self, points, distances, profile) ==
    LET sorted_distances == sort(distances)
        start_index == 1 + self.noise_skip_by
                         + self.lowest_index_for_checking_growth_ratio
        conservative_high_index ==
            usize_sub(profile, Len(points), self.minimum_cluster_count)
    IN  IF IsPanic(conservative_high_index) THEN conservative_high_index
        ELSE sorting_loop(self, sorted_distances, start_index,
                          conservative_high_index.v, DistanceGrowthStats_new)

\* The most points the scan is run on, and the longest step between two
\* adjacent points.
MaxScanPoints == 11
MaxScanStep == 3

\* The sequences of n steps, none longer than the one before it.
RECURSIVE StepsDown(_, _)
StepsDown(n, longest) ==
    IF n = 0 THEN { << >> }
    ELSE UNION { { << step >> \o rest : rest \in StepsDown(n - 1, step) } :
                 step \in 0 .. longest }

\* The points the scan is run on: in curve order, the longest steps first.
ScanPoints ==
    { << >> } \cup
    UNION { { PointsApart(steps) : steps \in StepsDown(n, MaxScanStep) } :
            n \in 0 .. MaxScanPoints - 1 }

\* The values given to with_noise_skip_by and to
\* with_lowest_index_for_checking_growth_ratio.
ScanSkips == { 0, 1 }
ScanLowest == { 0, 1 }

InitScan ==
    /\ \E points \in ScanPoints, noise_skip_by \in ScanSkips,
          index \in ScanLowest, profile \in Profiles :
          input = [self |->
                      with_lowest_index_for_checking_growth_ratio(
                          with_minimum_cluster_count(
                              with_noise_skip_by(
                                  SingleLinkage_new(Len(points), TestBits),
                                  noise_skip_by),
                              0),
                          index),
                   points |-> points,
                   profile |-> profile]
    /\ output = None
    /\ ClusteringNotInUse
    /\ BCubedNotInUse

FindBySortingScan ==
    /\ output = None
    /\ output' = Some(scan(input.self, input.points, all_pairs(input.points),
                           input.profile))
    /\ UNCHANGED << input, clusteringVars, bcubedVars >>

NextScan == FindBySortingScan

SpecScan == InitScan /\ [][NextScan]_vars

\* The square distances in ascending order, indexed from 0.
Distance(i) ==
    SortSeq([k \in 1 .. Len(input.points) - 1 |->
                square_distance(input.points[k], input.points[k + 1])],
            LAMBDA a, b : a < b)[i + 1]

\* The distance the scan compares distance i with.
Earlier(i) == Distance(i - 1 - input.self.noise_skip_by)

SmoothedDelta(i) == Distance(i) - Earlier(i)

SmoothedRatio(i) == Ratio(Distance(i), Earlier(i))

\* The indices of the scan, none when N is below minimum_cluster_count.
Scanned ==
    1 + input.self.noise_skip_by
      + input.self.lowest_index_for_checking_growth_ratio
    .. Len(input.points) - input.self.minimum_cluster_count - 1

\* The scanned indices whose earlier distance is not zero.
ScannedNonZero == { i \in Scanned : Earlier(i) # 0 }

\* The first index of a non-empty set of indices.
First(indices) == CHOOSE i \in indices : \A j \in indices : i <= j

Last(indices) == CHOOSE i \in indices : \A j \in indices : j <= i

\* Both running maxima were raised at the scanned index i.
BothRaised(i) ==
    /\ i \in ScannedNonZero
    /\ SmoothedDelta(i) > 0
    /\ \A j \in ScannedNonZero :
          j < i => /\ SmoothedDelta(j) < SmoothedDelta(i)
                   /\ ratio_gt(SmoothedRatio(i), SmoothedRatio(j))

\* C23 as stated: after the scan of find_by_sorting,
\* index_of_maximum_increase is the first scanned index at which the
\* smoothed delta is the largest of all scanned indices,
\* index_of_maximum_ratio is the first scanned index at which the smoothed
\* ratio is the largest of the scanned indices whose earlier distance is not
\* zero, and the paired index is the last scanned index at which both
\* running maxima were raised, 0 if there is none.
C23_ScanMaximaOfAllScanned ==
    (output # None /\ output[1].tag = "DistanceGrowthStats" /\ Scanned # { })
    => LET stats == output[1].v
           largest_delta ==
               { i \in Scanned : \A j \in Scanned : SmoothedDelta(j) <= SmoothedDelta(i) }
           largest_ratio ==
               { i \in ScannedNonZero :
                   \A j \in ScannedNonZero :
                      ~ratio_gt(SmoothedRatio(j), SmoothedRatio(i)) }
           raised == { i \in Scanned : BothRaised(i) }
       IN  /\ stats.index_of_maximum_increase = First(largest_delta)
           /\ ScannedNonZero # { }
              => stats.index_of_maximum_ratio = First(largest_ratio)
           /\ stats.index_of_maximum_increase_and_ratio
                 = IF raised = { } THEN 0 ELSE Last(raised)

\* C23 amended: the scan passes over every scanned index whose earlier
\* distance is zero, for the delta as for the ratio.  After the scan
\* index_of_maximum_increase is the first scanned index with a non-zero
\* earlier distance at which the smoothed delta is the largest of those
\* indices, or 0 when there is no such index or that delta is 0;
\* index_of_maximum_ratio is the first of them at which the smoothed ratio
\* is the largest, or 0 when there is none; the paired index is the last of
\* them at which both running maxima were raised, 0 if there is none.
C23_ScanMaxima ==
    (output # None /\ output[1].tag = "DistanceGrowthStats")
    => LET stats == output[1].v
           largest_delta ==
               { i \in ScannedNonZero :
                   \A j \in ScannedNonZero : SmoothedDelta(j) <= SmoothedDelta(i) }
           largest_ratio ==
               { i \in ScannedNonZero :
                   \A j \in ScannedNonZero :
                      ~ratio_gt(SmoothedRatio(j), SmoothedRatio(i)) }
           raised == { i \in Scanned : BothRaised(i) }
       IN  /\ stats.index_of_maximum_increase
                 = IF ScannedNonZero = { } THEN 0
                   ELSE IF SmoothedDelta(First(largest_delta)) = 0 THEN 0
                   ELSE First(largest_delta)
           /\ stats.index_of_maximum_ratio
                 = IF ScannedNonZero = { } THEN 0 ELSE First(largest_ratio)
           /\ stats.index_of_maximum_increase_and_ratio
                 = IF raised = { } THEN 0 ELSE Last(raised)

\* C23's case: the largest smoothed delta is at a scanned index whose
\* earlier distance is zero, and the scan recorded a later index for the
\* delta, one at which it raised both maxima.
C23_Witness ==
    /\ output # None
    /\ output[1].tag = "DistanceGrowthStats"
    /\ \E i \in Scanned \ ScannedNonZero :
          /\ SmoothedDelta(i) > output[1].v.max_increase_alone
          /\ output[1].v.index_of_maximum_increase > i
    /\ output[1].v.index_of_maximum_increase \in ScannedNonZero
    /\ output[1].v.index_of_maximum_increase_and_ratio
          = output[1].v.index_of_maximum_increase

-----------------------------------------------------------------------------
\* The index get_index_of_max_change returns lies within its bounds.

\* The values minimum_cluster_count takes: SingleLinkage::new sets it to 10
\* or more and with_minimum_cluster_count to 6 or more.
MinimumClusterCounts ==
    { SingleLinkage_new(n, TestBits).minimum_cluster_count : n \in Indices }
    \cup { with_minimum_cluster_count(SingleLinkage_new(n, TestBits), n).minimum_cluster_count :
             n \in 0 .. DefaultMinimumClusterCount + MaxIndex }

\* C28: for all low <= high and any three recorded indices,
\* get_index_of_max_change(low, high) returns an index k with
\* low <= k <= high; so in find_by_sorting, where high is
\* N - minimum_cluster_count and there are N - 1 sorted distances, the
\* index is a position of the sorted distances.
C28_IndexWithinBounds ==
    (output # None)
    => /\ output[1].tag = "usize"
       /\ input.i_low_paired <= output[1].v
       /\ output[1].v <= input.i_high
       /\ \A minimum_cluster_count \in MinimumClusterCounts :
             LET N == input.i_high + minimum_cluster_count
             IN  output[1].v < N - 1

\* C28's case: the indices of the maximum increase and of the maximum ratio
\* both lie above high and the paired index below low, and the index
\* returned is high.
C28_Witness ==
    /\ output # None
    /\ input.i_low_paired < input.i_high
    /\ PairedIndex < input.i_low_paired
    /\ DeltaIndex > input.i_high
    /\ RatioIndex > input.i_high
    /\ output[1] = usize(input.i_high)

-----------------------------------------------------------------------------
\* DistanceBin::make_bins (single_linkage.rs).

DistanceBin_new(from, to) ==
    [bounds |-> [start |-> from, end |-> to],
     lowest_value_added |-> to,
     highest_value_added |-> from,
     values_added |-> << >>]

\* The f64 of make_bins are kept as fractions, as the ratios of accumulate
\* are: the numbers met here are small integers and their products with a
\* multiplier of few digits, which an f64 tells apart.
RECURSIVE GCD(_, _)
GCD(a, b) == IF b = 0 THEN a ELSE GCD(b, a % b)

Lowest(r) ==
    LET d == GCD(r.num, r.den) IN Ratio(r.num \div d, r.den \div d)

u64_as_f64(n) == Ratio(n, 1)

ratio_mul(r1, r2) == Lowest(Ratio(r1.num * r2.num, r1.den * r2.den))

ratio_add(r1, r2) ==
    Lowest(Ratio(r1.num * r2.den + r2.num * r1.den, r1.den * r2.den))

ratio_sub(r1, r2) ==
    Lowest(Ratio(r1.num * r2.den - r2.num * r1.den, r1.den * r2.den))

ratio_lt(r1, r2) == r1.num * r2.den < r2.num * r1.den

\* f64::ceil of a number that is not negative.
ceil(r) == Ratio((r.num + r.den - 1) \div r.den, 1)

\* as u64 of a number that is not negative: the fraction is dropped.
f64_as_u64(r) == r.num \div r.den

\* The multiplier make_bins does not go below.
LeastMultiplier == Ratio(1001, 1000)

\* The while loop of make_bins and the push after it.
RECURSIVE make_bins_loop(_, _, _, _, _, _)
make_bins_loop(bins, next_bottom, next_top, tippy_top, min_width, multiplier) ==
    IF ratio_lt(next_top, tippy_top)
    THEN LET top == IF ratio_lt(ratio_sub(next_top, next_bottom), min_width)
                    THEN ratio_add(next_bottom, min_width)
                    ELSE next_top
         IN  make_bins_loop(
                 Append(bins, DistanceBin_new(f64_as_u64(next_bottom), f64_as_u64(top))),
                 top, ratio_mul(top, multiplier), tippy_top, min_width, multiplier)
    ELSE Append(bins, DistanceBin_new(f64_as_u64(next_bottom), f64_as_u64(next_top)))

make_bins(top_of_lowest_bin, top_of_highest_bin, minimum_bin_width, multiplier) ==
    LET m == IF ratio_lt(multiplier, LeastMultiplier) THEN LeastMultiplier
             ELSE multiplier
    IN  make_bins_loop(
            << DistanceBin_new(0, top_of_lowest_bin) >>,
            u64_as_f64(top_of_lowest_bin),
            ceil(ratio_mul(u64_as_f64(top_of_lowest_bin), m)),
            u64_as_f64(top_of_highest_bin),
            u64_as_f64(minimum_bin_width), m)

\* The bins of find_by_binning: make_bins(20, 1 << (2 * bits), 20, 1.05).
BinningTop == 20
BinningWidth == 20
BinningMultiplier == Ratio(105, 100)

largest_possible_square_distance(bits_per_dimension) ==
    Pow2(2 * bits_per_dimension)

binning_bins(bits_per_dimension) ==
    make_bins(BinningTop, largest_possible_square_distance(bits_per_dimension),
              BinningWidth, BinningMultiplier)

\* The highest top and the widest minimum width make_bins is called with.
MaxBinTop == 12
MaxBinWidth == 3

\* The multipliers make_bins is called with; 1 is below the least one.
BinMultipliers == { Ratio(1, 1), Ratio(5, 4), Ratio(3, 2), Ratio(2, 1) }

\* The bits_per_dimension of find_by_binning.
BinningBits == 1 .. 4

MakeBinsInputs ==
    { [top_of_lowest_bin |-> low, top_of_highest_bin |-> high,
       minimum_bin_width |-> width, multiplier |-> multiplier] :
         low \in 1 .. MaxBinTop, high \in 1 .. MaxBinTop,
         width \in 1 .. MaxBinWidth, multiplier \in BinMultipliers }
    \cup
    { [top_of_lowest_bin |-> BinningTop,
       top_of_highest_bin |-> largest_possible_square_distance(bits),
       minimum_bin_width |-> BinningWidth,
       multiplier |-> BinningMultiplier] : bits \in BinningBits }

InitBins ==
    /\ input \in MakeBinsInputs
    /\ output = None
    /\ ClusteringNotInUse
    /\ BCubedNotInUse

MakeBins ==
    /\ output = None
    /\ output' = Some(make_bins(input.top_of_lowest_bin, input.top_of_highest_bin,
                                input.minimum_bin_width, input.multiplier))
    /\ UNCHANGED << input, clusteringVars, bcubedVars >>

NextBins == MakeBins

SpecBins == InitBins /\ [][NextBins]_vars

\* The bins are ascending without a gap: each ends where the next starts.
Contiguous(bins) ==
    \A i \in 1 .. Len(bins) - 1 : bins[i].bounds.end = bins[i + 1].bounds.start

\* No bin is empty of values it could take.
ProperBounds(bins) ==
    \A i \in 1 .. Len(bins) : bins[i].bounds.start < bins[i].bounds.end

\* C24: the bins make_bins returns partition [0, top_of_highest_bin): the
\* first starts at 0, every bin has start < end, each bin's end is the next
\* bin's start, and the last ends at top_of_highest_bin; for
\* find_by_binning that is [0, 2^(2 * bits_per_dimension)).
C24_MakeBinsPartition ==
    (output # None)
    => LET bins == output[1]
       IN  /\ Len(bins) >= 1
           /\ bins[1].bounds.start = 0
           /\ ProperBounds(bins)
           /\ Contiguous(bins)
           /\ bins[Len(bins)].bounds.end = input.top_of_highest_bin

-----------------------------------------------------------------------------
\* DistanceBin: add and merge (single_linkage.rs).

DistanceBin_len(self) == Len(self.values_added)

\* Range<u64>::contains.
is_in_bounds(self, distance) ==
    self.bounds.start <= distance /\ distance < self.bounds.end

\* DistanceBin::add: the bin after the call and the bool it returns.
DistanceBin_add(self, distance) ==
    IF ~is_in_bounds(self, distance)
    THEN [self |-> self, ret |-> FALSE]
    ELSE LET raised == IF distance > self.highest_value_added
                       THEN [self EXCEPT !.highest_value_added = distance]
                       ELSE self
             lowered == IF distance < self.lowest_value_added
                        THEN [raised EXCEPT !.lowest_value_added = distance]
                        ELSE raised
         IN  [self |-> [lowered EXCEPT !.values_added = Append(@, distance)],
              ret |-> TRUE]

\* DistanceBin::merge: the widened bin, or the panic.
DistanceBin_merge(self, higher_bin) ==
    IF higher_bin.bounds.start < self.bounds.end THEN Panic(PanicSecondBin)
    ELSE LET widened == [self EXCEPT !.bounds.end = higher_bin.bounds.end]
         IN  [tag |-> "DistanceBin",
              v |-> IF DistanceBin_len(higher_bin) > 0
                    THEN [widened EXCEPT
                             !.values_added = @ \o higher_bin.values_added,
                             !.highest_value_added = higher_bin.highest_value_added]
                    ELSE widened]

\* DistanceBin::average_spread.
average_spread(self) ==
    IF DistanceBin_len(self) <= 1 THEN self.bounds.end - self.bounds.start
    ELSE (self.highest_value_added - self.lowest_value_added)
            \div (DistanceBin_len(self) - 1)

\* The highest end of a bin's bounds and the most values in a bin.
MaxBinEnd == 4
MaxBinLen == 2

\* The state is a bin and a bin above it, in output, and the last call, in
\* input.
BinCall(op, on, value, ret, before) ==
    [op |-> op, on |-> on, value |-> value, ret |-> ret, before |-> before]

InitBin ==
    /\ \E from \in 0 .. MaxBinEnd :
       \E to \in from .. MaxBinEnd :
       \E higher_from \in to .. MaxBinEnd :
       \E higher_to \in higher_from .. MaxBinEnd :
          LET bins == [bin |-> DistanceBin_new(from, to),
                       higher_bin |-> DistanceBin_new(higher_from, higher_to)]
          IN  /\ output = Some(bins)
              /\ input = BinCall("new", "bin", 0, TRUE, bins)
    /\ ClusteringNotInUse
    /\ BCubedNotInUse

\* bin.add(distance).
BinAdd ==
    /\ DistanceBin_len(output[1].bin) < MaxBinLen
    /\ \E distance \in 0 .. MaxBinEnd :
          LET added == DistanceBin_add(output[1].bin, distance)
          IN  /\ output' = Some([output[1] EXCEPT !.bin = added.self])
              /\ input' = BinCall("add", "bin", distance, added.ret, output[1])
    /\ UNCHANGED << clusteringVars, bcubedVars >>

\* higher_bin.add(distance).
HigherBinAdd ==
    /\ DistanceBin_len(output[1].higher_bin) < MaxBinLen
    /\ \E distance \in 0 .. MaxBinEnd :
          LET added == DistanceBin_add(output[1].higher_bin, distance)
          IN  /\ output' = Some([output[1] EXCEPT !.higher_bin = added.self])
              /\ input' = BinCall("add", "higher_bin", distance, added.ret,
                                  output[1])
    /\ UNCHANGED << clusteringVars, bcubedVars >>

\* bin = bin.merge(&higher_bin), with a bin that is higher.
BinMerge ==
    /\ output[1].higher_bin.bounds.start >= output[1].bin.bounds.end
    /\ DistanceBin_len(output[1].bin) + DistanceBin_len(output[1].higher_bin)
          <= MaxBinLen
    /\ LET merged == DistanceBin_merge(output[1].bin, output[1].higher_bin)
       IN  /\ output' = Some([output[1] EXCEPT !.bin = merged.v])
           /\ input' = BinCall("merge", "bin", 0, TRUE, output[1])
    /\ UNCHANGED << clusteringVars, bcubedVars >>

\* higher_bin = DistanceBin::new(from, to), above the bin.
HigherBinNew ==
    /\ \E from \in output[1].bin.bounds.end .. MaxBinEnd :
       \E to \in from .. MaxBinEnd :
          /\ output' = Some([output[1] EXCEPT !.higher_bin = DistanceBin_new(from, to)])
          /\ input' = BinCall("new", "higher_bin", 0, TRUE, output[1])
    /\ UNCHANGED << clusteringVars, bcubedVars >>

NextBin == BinAdd \/ HigherBinAdd \/ BinMerge \/ HigherBinNew

SpecBin == InitBin /\ [][NextBin]_vars

\* The values of a bin, as a set.
ValuesOf(self) == { self.values_added[i] : i \in 1 .. DistanceBin_len(self) }

ValuesWithinBounds(self) == \A value \in ValuesOf(self) : is_in_bounds(self, value)

\* lowest_value_added and highest_value_added are the least and the greatest
\* of the values of a bin that has some.
ExtremesAreOfValues(self) ==
    DistanceBin_len(self) > 0
    => /\ self.lowest_value_added \in ValuesOf(self)
       /\ self.highest_value_added \in ValuesOf(self)
       /\ \A value \in ValuesOf(self) :
             /\ self.lowest_value_added <= value
             /\ value <= self.highest_value_added

\* C30: in every DistanceBin reached from DistanceBin::new by add calls and
\* merge calls with a higher bin, every value of values_added lies within
\* the bounds and, when there is one, lowest_value_added and
\* highest_value_added are the minimum and the maximum of values_added; an
\* add of a value outside the bounds returns false and leaves the bin as it
\* was.
C30_BinExtremes ==
    /\ ValuesWithinBounds(output[1].bin)
    /\ ValuesWithinBounds(output[1].higher_bin)
    /\ ExtremesAreOfValues(output[1].bin)
    /\ ExtremesAreOfValues(output[1].higher_bin)
    /\ (input.op = "add" /\ ~is_in_bounds(input.before[input.on], input.value))
       => /\ input.ret = FALSE
          /\ output[1] = input.before

-----------------------------------------------------------------------------
\* DistanceBin::find_bin (single_linkage.rs).

\* The closure of find_bin: how a probed bin compares with the value.
probe_ordering(value, probe) ==
    IF value < probe.bounds.start THEN "Greater"
    ELSE IF value > probe.bounds.end THEN "Less"
    ELSE "Equal"

\* slice::binary_search_by as the standard library had it from Rust 1.52
\* on: the first probe that compares Equal is returned at once.  left,
\* right and the result are indices from 0.
RECURSIVE search_returning_at_once(_, _, _, _)
search_returning_at_once(value, bins, left, right) ==
    IF left < right
    THEN LET mid == left + (right - left) \div 2
             cmp == probe_ordering(value, bins[mid + 1])
         IN  IF cmp = "Less"
             THEN search_returning_at_once(value, bins, mid + 1, right)
             ELSE IF cmp = "Greater"
             THEN search_returning_at_once(value, bins, left, mid)
             ELSE Ok(mid)
    ELSE Err(left)

\* slice::binary_search_by as the standard library had it before, and has
\* it again from Rust 1.82 on: the slice is halved until one element is
\* left, keeping the upper half unless the probe compares Greater.
RECURSIVE search_halving(_, _, _, _)
search_halving(value, bins, base, size) ==
    IF size > 1
    THEN LET half == size \div 2
             mid == base + half
             cmp == probe_ordering(value, bins[mid + 1])
         IN  search_halving(value, bins, IF cmp = "Greater" THEN base ELSE mid,
                            size - half)
    ELSE LET cmp == probe_ordering(value, bins[base + 1])
         IN  IF cmp = "Equal" THEN Ok(base)
             ELSE Err(base + (IF cmp = "Less" THEN 1 ELSE 0))

\* slice::binary_search_by: when several bins compare Equal any one of them
\* may be returned, and which one depends on the toolchain the crate is
\* built with; these are the results of the two implementations.
binary_search_by(value, bins) ==
    { search_returning_at_once(value, bins, 0, Len(bins)),
      IF bins = << >> THEN Err(0) ELSE search_halving(value, bins, 0, Len(bins)) }

\* DistanceBin::find_bin: the results it can end with.
find_bin(value, bins) ==
    IF bins = << >> THEN { Panic(PanicUnwrapNone) }
    ELSE IF bins[Len(bins)].bounds.end <= value THEN { usize(Len(bins) - 1) }
    ELSE { IF bin_opt.tag = "Ok" THEN usize(bin_opt.v) ELSE Panic(PanicUnwrapErr) :
              bin_opt \in binary_search_by(value, bins) }

\* The bins find_bin searches: those of make_bins for small arguments and
\* those of find_by_binning.
MaxFindBinTop == 4

FindBinMultipliers == { Ratio(1, 1), Ratio(3, 2) }

FindBinBits == { 2, 3 }

FindBinBins ==
    { make_bins(low, high, width, multiplier) :
         low \in 1 .. MaxFindBinTop, high \in 1 .. MaxFindBinTop,
         width \in 1 .. MaxBinWidth, multiplier \in FindBinMultipliers }
    \cup { binning_bins(bits) : bits \in FindBinBits }

InitFindBin ==
    /\ \E bins \in FindBinBins :
       \E value \in 0 .. bins[Len(bins)].bounds.end + 1 :
          input = [value |-> value, bins |-> bins]
    /\ output = None
    /\ ClusteringNotInUse
    /\ BCubedNotInUse

FindBin ==
    /\ output = None
    /\ \E bin_index \in find_bin(input.value, input.bins) :
          output' = Some(bin_index)
    /\ UNCHANGED << input, clusteringVars, bcubedVars >>

NextFindBin == FindBin

SpecFindBin == InitFindBin /\ [][NextFindBin]_vars

\* C25: for contiguous ascending bins and a value below the last bin's end,
\* find_bin returns the index of the one bin whose bounds contain the value
\* (start <= value < end), a value on the boundary between two bins
\* included, so that add of the value to that bin succeeds; a value at or
\* above the last bin's end maps to the last index.
C25_FindBin ==
    (output # None /\ Contiguous(input.bins))
    => LET last == input.bins[Len(input.bins)]
       IN  /\ output[1].tag = "usize"
           /\ input.value >= last.bounds.end
              => output[1].v = Len(input.bins) - 1
           /\ input.value < last.bounds.end
              => /\ is_in_bounds(input.bins[output[1].v + 1], input.value)
                 /\ DistanceBin_add(input.bins[output[1].v + 1], input.value).ret

-----------------------------------------------------------------------------
\* DistanceBin::consolidate (single_linkage.rs).

\* The for loop of consolidate from the bin at i and the push after it: the
\* Vec it returns, or the panic of merge.
RECURSIVE consolidate_loop(_, _, _, _, _)
consolidate_loop(original_bins, minimum_size, i, consolidated_bins, hold_bin_opt) ==
    IF i > Len(original_bins)
    THEN [tag |-> "Vec",
          v |-> IF hold_bin_opt # None
                THEN Append(consolidated_bins, hold_bin_opt[1])
                ELSE consolidated_bins]
    ELSE LET bin == original_bins[i]
         IN  IF hold_bin_opt # None
             THEN LET merged == DistanceBin_merge(bin, hold_bin_opt[1])
                  IN  IF merged.tag # "DistanceBin" THEN merged
                      ELSE IF DistanceBin_len(merged.v) >= minimum_size
                      THEN consolidate_loop(original_bins, minimum_size, i + 1,
                                            Append(consolidated_bins, merged.v), None)
                      ELSE consolidate_loop(original_bins, minimum_size, i + 1,
                                            consolidated_bins, Some(merged.v))
             ELSE IF DistanceBin_len(bin) >= minimum_size
             THEN consolidate_loop(original_bins, minimum_size, i + 1,
                                   Append(consolidated_bins, bin), None)
             ELSE consolidate_loop(original_bins, minimum_size, i + 1,
                                   consolidated_bins, Some(bin))

consolidate(original_bins, minimum_size) ==
    consolidate_loop(original_bins, minimum_size, 1, << >>, None)

\* The highest end of the bins consolidated, the most values in them and
\* the highest minimum_size.
MaxConsolidateEnd == 4
MaxConsolidateValues == 3
MaxMinimumSize == 2

\* Contiguous bins from 0 that end at the ends given.
RECURSIVE BinsEndingAt(_, _)
BinsEndingAt(from, ends) ==
    IF ends = { } THEN << >>
    ELSE LET to == CHOOSE end \in ends : \A other \in ends : end <= other
         IN  << DistanceBin_new(from, to) >> \o BinsEndingAt(to, ends \ { to })

\* The bins after each of the values was added to the bin that contains it.
RECURSIVE BinsHolding(_, _)
BinsHolding(bins, values) ==
    IF values = << >> THEN bins
    ELSE LET held == BinsHolding(bins, SubSeq(values, 1, Len(values) - 1))
             value == values[Len(values)]
             bin_index == CHOOSE i \in 1 .. Len(held) : is_in_bounds(held[i], value)
         IN  [held EXCEPT ![bin_index] = DistanceBin_add(@, value).self]

InitConsolidate ==
    /\ \E ends \in SUBSET (1 .. MaxConsolidateEnd) \ { { } } :
       \E count \in 0 .. MaxConsolidateValues :
       \E minimum_size \in 0 .. MaxMinimumSize :
          LET top == CHOOSE end \in ends : \A other \in ends : end >= other
          IN  \E values \in [1 .. count -> 0 .. top - 1] :
                 input = [original_bins |-> BinsHolding(BinsEndingAt(0, ends), values),
                          minimum_size |-> minimum_size]
    /\ output = None
    /\ ClusteringNotInUse
    /\ BCubedNotInUse

Consolidate ==
    /\ output = None
    /\ output' = Some(consolidate(input.original_bins, input.minimum_size))
    /\ UNCHANGED << input, clusteringVars, bcubedVars >>

NextConsolidate == Consolidate

SpecConsolidate == InitConsolidate /\ [][NextConsolidate]_vars

\* How many times a value is in the bins.
Occurrences(bins, value) ==
    Cardinality(UNION { { << i, j >> : j \in { k \in 1 .. DistanceBin_len(bins[i]) :
                                                  bins[i].values_added[k] = value } } :
                        i \in 1 .. Len(bins) })

\* The bins hold the same values the same number of times.
SameValues(bins, others) ==
    \A value \in UNION { ValuesOf(bins[i]) : i \in 1 .. Len(bins) }
                 \cup UNION { ValuesOf(others[i]) : i \in 1 .. Len(others) } :
       Occurrences(bins, value) = Occurrences(others, value)

\* C26: consolidate of contiguous ascending bins returns without panic;
\* every bin it returns holds at least minimum_size values; the bins are
\* contiguous and ascending from the first start to the last end of the
\* bins given; and they hold the same values the same number of times.
C26_Consolidate ==
    (output # None /\ Contiguous(input.original_bins) /\ ProperBounds(input.original_bins))
    => LET original_bins == input.original_bins
           bins == output[1].v
       IN  /\ output[1].tag = "Vec"
           /\ \A i \in 1 .. Len(bins) : DistanceBin_len(bins[i]) >= input.minimum_size
           /\ Len(bins) >= 1
           /\ Contiguous(bins)
           /\ ProperBounds(bins)
           /\ bins[1].bounds.start = original_bins[1].bounds.start
           /\ bins[Len(bins)].bounds.end = original_bins[Len(original_bins)].bounds.end
           /\ SameValues(bins, original_bins)

-----------------------------------------------------------------------------
\* DistanceBin::find_square_distance_before_jump (single_linkage.rs).

\* Vec<u64>::sort: the values, ascending.
RECURSIVE sort_values(_)
sort_values(values) ==
    IF values = << >> THEN << >>
    ELSE LET at == CHOOSE i \in 1 .. Len(values) :
                      \A j \in 1 .. Len(values) :
                         values[i] < values[j] \/ (values[i] = values[j] /\ i <= j)
         IN  << values[at] >>
             \o sort_values(SubSeq(values, 1, at - 1) \o SubSeq(values, at + 1, Len(values)))

\* DistanceBin::sort.
DistanceBin_sort(self) == [self EXCEPT !.values_added = sort_values(@)]

\* A find_square_distance_before_jump that takes the last of the largest jumps.
RECURSIVE before_jump_loop_last_tie(_, _, _, _, _)
before_jump_loop_last_tie(values_added, i, value_before_biggest_jump, high_delta, previous_value) ==
    IF i > Len(values_added) THEN value_before_biggest_jump
    ELSE LET value == values_added[i]
             delta == value - previous_value
         IN  IF delta >= high_delta
             THEN before_jump_loop_last_tie(values_added, i + 1, previous_value, delta, value)
             ELSE before_jump_loop_last_tie(values_added, i + 1, value_before_biggest_jump,
                                            high_delta, value)

find_square_distance_before_jump_last_tie(self, highest_value_from_previous_bin) ==
    IF DistanceBin_len(self) = 0 THEN self.bounds.start
    ELSE IF DistanceBin_len(self) <= 2 THEN self.lowest_value_added
    ELSE before_jump_loop_last_tie(
             DistanceBin_sort(self).values_added, 1, highest_value_from_previous_bin,
             self.lowest_value_added - highest_value_from_previous_bin,
             highest_value_from_previous_bin)

\* The for loop of find_square_distance_before_jump from the value at i.
RECURSIVE before_jump_loop(_, _, _, _, _)
before_jump_loop(values_added, i, value_before_biggest_jump, high_delta, previous_value) ==
    IF i > Len(values_added) THEN value_before_biggest_jump
    ELSE LET value == values_added[i]
             delta == value - previous_value
         IN  IF delta > high_delta
             THEN before_jump_loop(values_added, i + 1, previous_value, delta, value)
             ELSE before_jump_loop(values_added, i + 1, value_before_biggest_jump,
                                   high_delta, value)

\* DistanceBin::find_square_distance_before_jump, for a
\* highest_value_from_previous_bin that is at most the values of the bin:
\* no subtraction goes below zero.
find_square_distance_before_jump(self, highest_value_from_previous_bin) ==
    IF DistanceBin_len(self) = 0 THEN self.bounds.start
    ELSE IF DistanceBin_len(self) <= 2 THEN self.lowest_value_added
    ELSE before_jump_loop(
             DistanceBin_sort(self).values_added, 1, highest_value_from_previous_bin,
             self.lowest_value_added - highest_value_from_previous_bin,
             highest_value_from_previous_bin)

\* The highest end of the bin and the most values in it.
MaxJumpEnd == 5
MaxJumpValues == 4

\* A bin with the values added to it, and a highest value of the bin before
\* it, which is at most the values of the bin and, of a bin without
\* values, at most its start.
InitJump ==
    /\ \E from \in 0 .. MaxJumpEnd - 1 :
       \E to \in from + 1 .. MaxJumpEnd :
       \E count \in 0 .. MaxJumpValues :
       \E values \in [1 .. count -> from .. to - 1] :
       \E highest_value_from_previous_bin \in 0 .. to - 1 :
          /\ \A i \in 1 .. count : highest_value_from_previous_bin <= values[i]
          /\ count = 0 => highest_value_from_previous_bin <= from
          /\ input = [self |-> BinsHolding(<< DistanceBin_new(from, to) >>, values)[1],
                      highest_value_from_previous_bin |-> highest_value_from_previous_bin]
    /\ output = None
    /\ ClusteringNotInUse
    /\ BCubedNotInUse

FindSquareDistanceBeforeJump ==
    /\ output = None
    /\ output' = Some(find_square_distance_before_jump(
                          input.self, input.highest_value_from_previous_bin))
    /\ UNCHANGED << input, clusteringVars, bcubedVars >>

NextJump == FindSquareDistanceBeforeJump

SpecJump == InitJump /\ [][NextJump]_vars

\* The anchor and after it the values of the bin, ascending.
Anchored ==
    << input.highest_value_from_previous_bin >>
    \o SortSeq(input.self.values_added, LAMBDA a, b : a < b)

\* The gap after the i-th of them.
Gap(i) == Anchored[i + 1] - Anchored[i]

\* The place of the first of the largest gaps.
LargestGap ==
    CHOOSE i \in 1 .. Len(Anchored) - 1 :
       /\ \A j \in 1 .. Len(Anchored) - 1 : Gap(j) <= Gap(i)
       /\ \A j \in 1 .. i - 1 : Gap(j) < Gap(i)

AllAtLeastAnchor ==
    \A value \in ValuesOf(input.self) : value >= input.highest_value_from_previous_bin

-----------------------------------------------------------------------------
\* The assignment loop of find_by_binning (single_linkage.rs).

\* The for loop over hilbert_sorted_distances from the pair at i: the bins
\* it can end with, one outcome for each result find_bin can give, or the
\* panic.
RECURSIVE binning_assign_loop(_, _, _)
binning_assign_loop(bins, hilbert_sorted_distances, i) ==
    IF i > Len(hilbert_sorted_distances) THEN { [tag |-> "Vec", v |-> bins] }
    ELSE LET pair == hilbert_sorted_distances[i]
         IN  UNION { IF bin_index.tag # "usize" THEN { bin_index }
                     ELSE IF bin_index.v >= Len(bins)
                     THEN { Panic(PanicIndexOutOfBounds) }
                     ELSE binning_assign_loop(
                              [bins EXCEPT ![bin_index.v + 1] =
                                  DistanceBin_add(@, pair.square_distance).self],
                              hilbert_sorted_distances, i + 1) :
                     bin_index \in find_bin(pair.square_distance, bins) }

\* Part 1 of find_by_binning.
binning_assign(self, hilbert_sorted_distances) ==
    binning_assign_loop(binning_bins(self.bits_per_dimension),
                        hilbert_sorted_distances, 1)

\* The most points binned.
MaxAssignPoints == 3

\* bits_per_dimension of the points binned, and the coordinates they have:
\* none reaches 2^bits_per_dimension.
AssignBits == { 3, 4 }

AssignCoordinates(bits_per_dimension) ==
    IF bits_per_dimension = 3
    THEN { << 0, 0 >>, << 1, 0 >>, << 4, 2 >>, << 7, 7 >> }
    ELSE { << 0, 0 >>, << 4, 2 >>, << 12, 4 >>, << 15, 15 >> }

InitAssign ==
    /\ \E bits_per_dimension \in AssignBits :
       \E n \in 0 .. MaxAssignPoints :
       \E coordinates \in [1 .. n -> AssignCoordinates(bits_per_dimension)] :
          LET points == [i \in 1 .. n |-> Point(i - 1, coordinates[i])]
          IN  input = [self |-> SingleLinkage_new(n, bits_per_dimension),
                       points |-> points,
                       hilbert_sorted_distances |-> all_pairs(points)]
    /\ output = None
    /\ ClusteringNotInUse
    /\ BCubedNotInUse

BinningAssign ==
    /\ output = None
    /\ \E bins \in binning_assign(input.self, input.hilbert_sorted_distances) :
          output' = Some(bins)
    /\ UNCHANGED << input, clusteringVars, bcubedVars >>

NextAssign == BinningAssign

SpecAssign == InitAssign /\ [][NextAssign]_vars

\* How many of the pairs have the square distance.
PairsAt(hilbert_sorted_distances, value) ==
    Cardinality({ k \in 1 .. Len(hilbert_sorted_distances) :
                     hilbert_sorted_distances[k].square_distance = value })

RECURSIVE SumOfLen(_)
SumOfLen(bins) ==
    IF bins = << >> THEN 0 ELSE DistanceBin_len(bins[1]) + SumOfLen(Tail(bins))

\* C29: after the assignment loop of find_by_binning the bins hold as many
\* values as there are pair distances, N - 1 of them for N >= 1 points, and
\* each square distance as many times as pairs have it: none is dropped.
C29_EveryDistanceBinned ==
    (output # None)
    => LET bins == output[1].v
           hilbert_sorted_distances == input.hilbert_sorted_distances
       IN  /\ output[1].tag = "Vec"
           /\ SumOfLen(bins) = Len(hilbert_sorted_distances)
           /\ Len(input.points) >= 1 => SumOfLen(bins) = Len(input.points) - 1
           /\ \A k \in 1 .. Len(hilbert_sorted_distances) :
                 Occurrences(bins, hilbert_sorted_distances[k].square_distance)
                    = PairsAt(hilbert_sorted_distances,
                              hilbert_sorted_distances[k].square_distance)
           /\ \A i \in 1 .. Len(bins) : \A value \in ValuesOf(bins[i]) :
                 PairsAt(hilbert_sorted_distances, value) >= 1

====
